---- MODULE Spec2Model ----
(***************************************************************************)
(* A model of the Dhall language kernel of dhall-rust: the expression      *)
(* tree, shift / subst, and the normalizer `normalize` of                  *)
(* dhall_normalize/src/normalize.rs (specification Spec); of the           *)
(* conversion of parse trees into expressions of dhall_core/src/parser.rs  *)
(* (specification ParserSpec); and of the Deserializer builder of          *)
(* serde_dhall/src/options/de.rs (specification DeserializerSpec).         *)
(*                                                                         *)
(* An expression is a tuple whose first element is the variant's name:     *)
(*   <<"Const", k>>            <<"Var", x, n>>                             *)
(*   <<"Lam", x, A, b>>        <<"Pi", x, A, B>>                           *)
(*   <<"App", f, a>>           <<"Let", x, mt, r, b>>                      *)
(*   <<"Annot", e, T>>         <<"Builtin", b>>                            *)
(*   <<"BoolLit", b>>          <<"NaturalLit", n>>                         *)
(*   <<"IntegerLit", n>>       <<"DoubleLit", n>>                          *)
(*   <<"TextLit", chars>>      <<"BinOp", op, x, y>>                       *)
(*   <<"BoolIf", c, t, f>>     <<"ListLit", mt, items>>                    *)
(*   <<"OptionalLit", mt, items>>                                          *)
(*   <<"Record", kts>>         <<"RecordLit", kvs>>                        *)
(*   <<"Union", kts>>          <<"UnionLit", k, v, kvs>>                   *)
(*   <<"Merge", x, y, mt>>     <<"Field", r, x>>                           *)
(*   <<"Note", s, e>>          <<"Embed", a>>                              *)
(* An Option<Expr> (mt) is <<>> for None and <<e>> for Some(e).  A         *)
(* BTreeMap<Label, Expr> (kts, kvs) is the sequence of its <<key, value>>  *)
(* pairs in key order.  A text is a sequence of one-character strings.     *)
(* A panic of the Rust code (panic!, unimplemented!) is the value          *)
(* <<"Panic", message>>, which every caller passes on unchanged.           *)
(***************************************************************************)
EXTENDS Integers, Sequences, FiniteSets, TLC

VARIABLES expr, prev, op, arg, steps

vars == <<expr, prev, op, arg, steps>>

(***************************************************************************)
(* Constructors of dhall_core::Expr                                        *)
(***************************************************************************)
Const(k) == <<"Const", k>>
Var(x, n) == <<"Var", x, n>>
Lam(x, tA, b) == <<"Lam", x, tA, b>>
Pi(x, tA, tB) == <<"Pi", x, tA, tB>>
App(f, a) == <<"App", f, a>>
Let(x, mt, r, b) == <<"Let", x, mt, r, b>>
Annot(e, t) == <<"Annot", e, t>>
Builtin(b) == <<"Builtin", b>>
BoolLit(b) == <<"BoolLit", b>>
NaturalLit(n) == <<"NaturalLit", n>>
IntegerLit(n) == <<"IntegerLit", n>>
DoubleLit(n) == <<"DoubleLit", n>>
TextLit(t) == <<"TextLit", t>>
BinOp(o, x, y) == <<"BinOp", o, x, y>>
BoolIf(c, t, f) == <<"BoolIf", c, t, f>>
ListLit(mt, es) == <<"ListLit", mt, es>>
OptionalLit(mt, es) == <<"OptionalLit", mt, es>>
Record(kts) == <<"Record", kts>>
RecordLit(kvs) == <<"RecordLit", kvs>>
Union(kts) == <<"Union", kts>>
UnionLit(k, v, kvs) == <<"UnionLit", k, v, kvs>>
Merge(x, y, mt) == <<"Merge", x, y, mt>>
Field(r, x) == <<"Field", r, x>>
Note(s, e) == <<"Note", s, e>>
Embed(a) == <<"Embed", a>>

None == <<>>
Some(e) == <<e>>

Tag(e) == e[1]
IsBuiltin(e, b) == Tag(e) = "Builtin" /\ e[2] = b
IsVarNamed(e, x) == Tag(e) = "Var" /\ e[2] = x

(* A panic of the Rust code, and the first panic among results computed    *)
(* in order (Rust unwinds at the first one).                               *)
Panic(msg) == <<"Panic", msg>>
IsPanic(e) == Tag(e) = "Panic"

RECURSIVE FirstPanic(_)
FirstPanic(es) ==
    IF es = <<>> THEN <<>>
    ELSE IF IsPanic(Head(es)) THEN <<Head(es)>>
    ELSE FirstPanic(Tail(es))

(* result, unless one of the sub-results es (in evaluation order) panicked *)
Unless(es, result) ==
    LET p == FirstPanic(es) IN IF p # <<>> THEN p[1] ELSE result

Values(kvs) == [i \in 1..Len(kvs) |-> kvs[i][2]]

(* BTreeMap::get returning the first entry whatever the key *)
Get_First(kvs, x) == kvs[1][2]

(* BTreeMap::get *)
HasKey(kvs, x) == \E i \in 1..Len(kvs) : kvs[i][1] = x
Get(kvs, x) == kvs[CHOOSE i \in 1..Len(kvs) : kvs[i][1] = x][2]

(***************************************************************************)
(* shift (§4.2): adds d to every free occurrence of a variable named x     *)
(* with index >= m.  A binder of x raises m by one for its body (and for   *)
(* the annotation of a Let); the domain of a Lam / Pi and the bound        *)
(* expression of a Let are traversed with the outer m.                     *)
(***************************************************************************)
RECURSIVE shift(_, _, _)
shift(d, v, e) ==
    LET x == v[2]
        m == v[3]
        Sh(e2) == shift(d, v, e2)
        under(y) == Var(x, IF y = x THEN m + 1 ELSE m)
        ShKv(kvs) == [i \in 1..Len(kvs) |-> <<kvs[i][1], shift(d, v, kvs[i][2])>>]
        ShSeq(es) == [i \in 1..Len(es) |-> shift(d, v, es[i])]
    IN
    CASE Tag(e) = "Var" ->
            IF e[2] = x /\ m <= e[3] THEN Var(e[2], e[3] + d) ELSE e
      [] Tag(e) = "Lam" -> Lam(e[2], Sh(e[3]), shift(d, under(e[2]), e[4]))
      [] Tag(e) = "Pi" -> Pi(e[2], Sh(e[3]), shift(d, under(e[2]), e[4]))
      [] Tag(e) = "App" -> App(Sh(e[2]), Sh(e[3]))
      [] Tag(e) = "Let" ->
            Let(e[2],
                [i \in 1..Len(e[3]) |-> shift(d, under(e[2]), e[3][i])],
                Sh(e[4]),
                shift(d, under(e[2]), e[5]))
      [] Tag(e) = "Annot" -> Annot(Sh(e[2]), Sh(e[3]))
      [] Tag(e) = "BinOp" -> BinOp(e[2], Sh(e[3]), Sh(e[4]))
      [] Tag(e) = "BoolIf" -> BoolIf(Sh(e[2]), Sh(e[3]), Sh(e[4]))
      [] Tag(e) = "ListLit" -> ListLit(ShSeq(e[2]), ShSeq(e[3]))
      [] Tag(e) = "OptionalLit" -> OptionalLit(ShSeq(e[2]), ShSeq(e[3]))
      [] Tag(e) = "Record" -> Record(ShKv(e[2]))
      [] Tag(e) = "RecordLit" -> RecordLit(ShKv(e[2]))
      [] Tag(e) = "Union" -> Union(ShKv(e[2]))
      [] Tag(e) = "UnionLit" -> UnionLit(e[2], Sh(e[3]), ShKv(e[4]))
      [] Tag(e) = "Merge" -> Merge(Sh(e[2]), Sh(e[3]), ShSeq(e[4]))
      [] Tag(e) = "Field" -> Field(Sh(e[2]), e[3])
      [] Tag(e) = "Note" -> Note(e[2], Sh(e[3]))
      [] OTHER -> e

(***************************************************************************)
(* subst (§4.3): replaces the free occurrences of V(x, n) in e by r.       *)
(* Crossing a binder named y shifts r by +1 on V(y, 0), and raises n by    *)
(* one when y = x.                                                         *)
(***************************************************************************)
RECURSIVE subst(_, _, _)
subst(v, r, e) ==
    LET x == v[2]
        n == v[3]
        Su(e2) == subst(v, r, e2)
        SuUnder(y, e2) ==
            subst(Var(x, IF y = x THEN n + 1 ELSE n), shift(1, Var(y, 0), r), e2)
        SuKv(kvs) == [i \in 1..Len(kvs) |-> <<kvs[i][1], subst(v, r, kvs[i][2])>>]
        SuSeq(es) == [i \in 1..Len(es) |-> subst(v, r, es[i])]
    IN
    CASE Tag(e) = "Var" -> IF e[2] = x /\ e[3] = n THEN r ELSE e
      [] Tag(e) = "Lam" -> Lam(e[2], Su(e[3]), SuUnder(e[2], e[4]))
      [] Tag(e) = "Pi" -> Pi(e[2], Su(e[3]), SuUnder(e[2], e[4]))
      [] Tag(e) = "App" -> App(Su(e[2]), Su(e[3]))
      [] Tag(e) = "Let" ->
            Let(e[2], SuSeq(e[3]), Su(e[4]), SuUnder(e[2], e[5]))
      [] Tag(e) = "Annot" -> Annot(Su(e[2]), Su(e[3]))
      [] Tag(e) = "BinOp" -> BinOp(e[2], Su(e[3]), Su(e[4]))
      [] Tag(e) = "BoolIf" -> BoolIf(Su(e[2]), Su(e[3]), Su(e[4]))
      [] Tag(e) = "ListLit" -> ListLit(SuSeq(e[2]), SuSeq(e[3]))
      [] Tag(e) = "OptionalLit" -> OptionalLit(SuSeq(e[2]), SuSeq(e[3]))
      [] Tag(e) = "Record" -> Record(SuKv(e[2]))
      [] Tag(e) = "RecordLit" -> RecordLit(SuKv(e[2]))
      [] Tag(e) = "Union" -> Union(SuKv(e[2]))
      [] Tag(e) = "UnionLit" -> UnionLit(e[2], Su(e[3]), SuKv(e[4]))
      [] Tag(e) = "Merge" -> Merge(Su(e[2]), Su(e[3]), SuSeq(e[4]))
      [] Tag(e) = "Field" -> Field(Su(e[2]), e[3])
      [] Tag(e) = "Note" -> Note(e[2], Su(e[3]))
      [] OTHER -> e

(***************************************************************************)
(* Helpers of the normalizer                                               *)
(***************************************************************************)
Reverse(s) == [i \in 1..Len(s) |-> s[Len(s) + 1 - i]]

(* usize::to_string: the decimal digits of n *)
Digit(d) == <<"0", "1", "2", "3", "4", "5", "6", "7", "8", "9">>[d + 1]

RECURSIVE to_string(_)
to_string(n) ==
    IF n < 10 THEN <<Digit(n)>> ELSE to_string(n \div 10) \o <<Digit(n % 10)>>

(* the patterns App(box Builtin(b), _) and App(box App(box Builtin(b), _), _) *)
IsApp1(e, b) == Tag(e) = "App" /\ IsBuiltin(e[2], b)
IsApp2(e, b) == Tag(e) = "App" /\ IsApp1(e[2], b)

(* the pattern App(box App(box App(box App(box Builtin(b), _), box lit(_, xs)), _), last) *)
IsFold4(e, b, lit) ==
    /\ Tag(e) = "App"
    /\ Tag(e[2]) = "App"
    /\ Tag(e[2][2]) = "App"
    /\ IsApp1(e[2][2][2], b)
    /\ Tag(e[2][2][3]) = lit

(* the closures `set` handed to with_binop, lines 183-234 *)
BinOpSet(o, xn, yn) ==
    CASE o = "BoolAnd" -> BoolLit(xn /\ yn)
      [] o = "BoolOr" -> BoolLit(xn \/ yn)
      [] o = "BoolEQ" -> BoolLit(xn = yn)
      [] o = "BoolNE" -> BoolLit(xn # yn)
      [] o = "NaturalPlus" -> NaturalLit(xn + yn)
      [] o = "NaturalTimes" -> NaturalLit(xn * yn)
      [] o = "TextAppend" -> TextLit(xn \o yn)

(* with_binop rebuilding the operator with its operands exchanged *)
with_binop_Swapped(o, get, x, y) ==
    IF Tag(x) = get /\ Tag(y) = get
    THEN BinOpSet(o, x[2], y[2])
    ELSE BinOp(o, y, x)

(* with_binop: set(xv, yv) when get finds a literal of its kind in both    *)
(* operands, the operator left in place otherwise                          *)
with_binop(o, get, x, y) ==
    IF Tag(x) = get /\ Tag(y) = get
    THEN BinOpSet(o, x[2], y[2])
    ELSE BinOp(o, x, y)

(* check looking at the outermost application only *)
check_HeadOnly(e) ==
    \/ Tag(e) = "App" /\ Tag(e[2]) = "App" /\ IsVarNamed(e[2][2], "Cons")
    \/ IsVarNamed(e, "Nil")

(* check of the List/build rule: a spine of Cons applications ending in Nil *)
RECURSIVE check(_)
check(e) ==
    IF Tag(e) = "App" /\ Tag(e[2]) = "App" /\ IsVarNamed(e[2][2], "Cons")
    THEN check(e[3])
    ELSE IsVarNamed(e, "Nil")

(* list_to_vector pushing the items of the tail before the head *)
RECURSIVE list_to_vector_TailFirst(_)
list_to_vector_TailFirst(e) ==
    IF Tag(e) = "App" /\ Tag(e[2]) = "App" /\ IsVarNamed(e[2][2], "Cons")
    THEN list_to_vector_TailFirst(e[3]) \o <<e[2][3]>>
    ELSE IF IsVarNamed(e, "Nil") THEN <<>>
    ELSE <<Panic("internalError list_to_vector")>>

(* list_to_vector of the List/build rule: the items of the spine pushed on  *)
(* v; the panic of its last arm is an item <<"Panic", _>> at the end       *)
RECURSIVE list_to_vector(_)
list_to_vector(e) ==
    IF Tag(e) = "App" /\ Tag(e[2]) = "App" /\ IsVarNamed(e[2][2], "Cons")
    THEN <<e[2][3]>> \o list_to_vector(e[3])
    ELSE IF IsVarNamed(e, "Nil") THEN <<>>
    ELSE <<Panic("internalError list_to_vector")>>

(* BetaSubst without the opening shift by +1 of the argument *)
BetaSubst_NoShiftUp(x, a, b) == shift(-1, Var(x, 0), subst(Var(x, 0), a, b))

(* BetaSubst and LetSubst without the closing shift by -1 *)
BetaSubst_NoShiftDown(x, a, b) == subst(Var(x, 0), shift(1, Var(x, 0), a), b)

LetSubst_NoShiftDown(f, r, b) == subst(Var(f, 0), shift(1, Var(f, 0), r), b)

(* lines 39-42 and 172-174: the replacement of V(x, 0) in b by a, between  *)
(* a shift by +1 and a shift by -1 on V(x, 0)                              *)
BetaSubst(x, a, b) ==
    shift(-1, Var(x, 0), subst(Var(x, 0), shift(1, Var(x, 0), a), b))

LetSubst(f, r, b) ==
    shift(-1, Var(f, 0), subst(Var(f, 0), shift(1, Var(f, 0), r), b))

(***************************************************************************)
(* normalize (normalize.rs:14-268)                                         *)
(***************************************************************************)
RECURSIVE normalize(_)

(* map_record_value(kvs, normalize): the same keys, every value normalized *)
map_record_value(kvs) == [i \in 1..Len(kvs) |-> <<kvs[i][1], normalize(kvs[i][2])>>]

(* Option<Box<Expr>>::map(normalize) and Vec::iter().map(normalize) *)
NormalizeSeq(es) == [i \in 1..Len(es) |-> normalize(es[i])]

(* NormalizeBeta returning the substituted body as it is *)
NormalizeBeta_NoRenormalize(x, a, b) == BetaSubst(x, a, b)

(* line 43: the beta redex is substituted, then normalized again *)
NormalizeBeta(x, a, b) == normalize(BetaSubst(x, a, b))

(* lines 171-176: Let; the annotation is not looked at *)
NormalizeLet(f, r, b) == normalize(LetSubst(f, r, b))

(* lines 83-115: List/build t k *)
ListBuildRule(t, k) ==
    LET labeled ==
            normalize(App(App(App(k, App(Builtin("List"), t)), Var("Cons", 0)),
                          Var("Nil", 0)))
    IN
    IF IsPanic(labeled) THEN labeled
    ELSE IF check(labeled)
    THEN LET v == list_to_vector(labeled)
         IN Unless(v, ListLit(Some(t), v))
    ELSE App(App(Builtin("ListBuild"), t), k)

(* lines 116-121: List/fold _ (ListLit _ xs) _ cons nil; the closure gets  *)
(* the accumulator first and the item second                               *)
RECURSIVE ListFoldSpine(_, _, _)
ListFoldSpine(cons, y, rest) ==
    IF rest = <<>> THEN y
    ELSE ListFoldSpine(cons, App(App(cons, y), Head(rest)), Tail(rest))

ListFoldRule(xs, cons, nil) == normalize(ListFoldSpine(cons, nil, Reverse(xs)))

(* lines 122-135: an application App(f, x_) applied to a list literal *)
ListLitRule(f, x_, t, ys) ==
    IF IsBuiltin(f, "ListLength") THEN NaturalLit(Len(ys))
    ELSE IF IsBuiltin(f, "ListHead")
    THEN normalize(OptionalLit(t, SubSeq(ys, 1, IF Len(ys) >= 1 THEN 1 ELSE 0)))
    ELSE IF IsBuiltin(f, "ListLast")
    THEN normalize(OptionalLit(t, SubSeq(ys, IF Len(ys) >= 1 THEN Len(ys) ELSE 1, Len(ys))))
    ELSE IF IsBuiltin(f, "ListReverse") THEN normalize(ListLit(t, Reverse(ys)))
    ELSE App(App(f, x_), ListLit(t, ys))

(* lines 151-156: Optional/fold _ (OptionalLit _ xs) _ just nothing; the   *)
(* closure ignores the item                                                *)
RECURSIVE OptionalFoldSpine(_, _, _)
OptionalFoldSpine(just, y, rest) ==
    IF rest = <<>> THEN y ELSE OptionalFoldSpine(just, App(just, y), Tail(rest))

OptionalFoldRule(xs, just, nothing) == normalize(OptionalFoldSpine(just, nothing, xs))

(* lines 160-167: Optional/build a0 g *)
OptionalBuildRule(a0, g) ==
    normalize(App(App(App(g, App(Builtin("Optional"), a0)),
                      Lam("x", a0, OptionalLit(Some(a0), <<Var("x", 0)>>))),
                  OptionalLit(Some(a0), <<>>)))

(* the last arm of the match on (f2, a2) left unimplemented *)
Stuck_Unimplemented(f2, a2) == Panic("not implemented")

(* line 168: no rule matches, the application is left in place *)
Stuck(f2, a2) == App(f2, a2)

(* the first fusion pattern never matching *)
ListBuildFoldFusion_Never(f2, a2) == FALSE

(* line 47: the pattern of List/build _ (List/fold _ e2) *)
ListBuildFoldFusion(f2, a2) == IsApp1(f2, "ListBuild") /\ IsApp2(a2, "ListFold")

(* lines 45-168: the rules tried in order on the normalized head f2 (not a *)
(* lambda) and the normalized argument a2                                  *)
ApplyRules(f2, a2) ==
    IF ListBuildFoldFusion(f2, a2) THEN normalize(a2[3])
    ELSE IF IsApp1(f2, "ListFold") /\ IsApp2(a2, "ListBuild") THEN normalize(a2[3])
    ELSE IF IsBuiltin(f2, "NaturalBuild") /\ IsApp1(a2, "NaturalFold") THEN normalize(a2[3])
    ELSE IF IsBuiltin(f2, "NaturalFold") /\ IsApp1(a2, "NaturalBuild") THEN normalize(a2[3])
    ELSE IF IsBuiltin(f2, "NaturalIsZero") /\ Tag(a2) = "NaturalLit" THEN BoolLit(a2[2] = 0)
    ELSE IF IsBuiltin(f2, "NaturalEven") /\ Tag(a2) = "NaturalLit" THEN BoolLit(a2[2] % 2 = 0)
    ELSE IF IsBuiltin(f2, "NaturalOdd") /\ Tag(a2) = "NaturalLit" THEN BoolLit(a2[2] % 2 # 0)
    ELSE IF IsBuiltin(f2, "NaturalToInteger") /\ Tag(a2) = "NaturalLit" THEN IntegerLit(a2[2])
    ELSE IF IsBuiltin(f2, "NaturalShow") /\ Tag(a2) = "NaturalLit" THEN TextLit(to_string(a2[2]))
    ELSE IF IsApp1(f2, "ListBuild") THEN ListBuildRule(f2[3], a2)
    ELSE IF IsFold4(f2, "ListFold", "ListLit") THEN ListFoldRule(f2[2][2][3][3], f2[3], a2)
    ELSE IF Tag(f2) = "App" /\ Tag(a2) = "ListLit" THEN ListLitRule(f2[2], f2[3], a2[2], a2[3])
    ELSE IF IsFold4(f2, "OptionalFold", "OptionalLit")
    THEN OptionalFoldRule(f2[2][2][3][3], f2[3], a2)
    ELSE IF IsApp1(f2, "OptionalBuild") /\ IsApp2(a2, "OptionalFold") THEN normalize(a2[3])
    ELSE IF IsApp1(f2, "OptionalBuild") THEN OptionalBuildRule(f2[3], a2)
    ELSE Stuck(f2, a2)

(* lines 36-170: App(f, a) *)
NormalizeApp(f, a) ==
    LET f2 == normalize(f) IN
    IF IsPanic(f2) THEN f2
    ELSE IF Tag(f2) = "Lam" THEN NormalizeBeta(f2[2], a, f2[4])
    ELSE LET a2 == normalize(a) IN IF IsPanic(a2) THEN a2 ELSE ApplyRules(f2, a2)

(* lines 180-237: the operators with a rule; every other operator reaches  *)
(* the last arm of the match, line 266                                     *)
NormalizeBinOp(o, x, y) ==
    LET xn == normalize(x)
        yn == normalize(y)
        lit(get) == Unless(<<xn, yn>>, with_binop(o, get, xn, yn))
    IN
    IF o \in {"BoolAnd", "BoolOr", "BoolEQ", "BoolNE"} THEN lit("BoolLit")
    ELSE IF o \in {"NaturalPlus", "NaturalTimes"} THEN lit("NaturalLit")
    ELSE IF o = "TextAppend" THEN lit("TextLit")
    ELSE Panic("not implemented")

(* lines 208-212 *)
NormalizeBoolIf(b, t, f) ==
    LET b2 == normalize(b) IN
    IF IsPanic(b2) THEN b2
    ELSE IF b2 = BoolLit(TRUE) THEN normalize(t)
    ELSE IF b2 = BoolLit(FALSE) THEN normalize(f)
    ELSE LET t2 == normalize(t)
             f2 == normalize(f)
         IN Unless(<<t2, f2>>, BoolIf(b2, t2, f2))

(* NormalizeField looking for the record literal in r as written *)
NormalizeField_AsWritten(r, x) ==
    IF Tag(r) = "RecordLit" /\ HasKey(r[2], x) THEN normalize(Get(r[2], x))
    ELSE LET r2 == normalize(r) IN Unless(<<r2>>, Field(r2, x))

(* lines 255-263 *)
NormalizeField(r, x) ==
    LET r2 == normalize(r) IN
    IF IsPanic(r2) THEN r2
    ELSE IF Tag(r2) = "RecordLit"
    THEN IF HasKey(r2[2], x)
         THEN normalize(Get(r2[2], x))
         ELSE LET kvs == map_record_value(r2[2])
              IN Unless(Values(kvs), Field(RecordLit(kvs), x))
    ELSE Field(r2, x)

normalize(e) ==
    CASE Tag(e) = "Const" -> e
      [] Tag(e) = "Var" -> e
      [] Tag(e) = "Lam" ->
            LET tA2 == normalize(e[3])
                b2 == normalize(e[4])
            IN Unless(<<tA2, b2>>, Lam(e[2], tA2, b2))
      [] Tag(e) = "Pi" ->
            LET tA2 == normalize(e[3])
                tB2 == normalize(e[4])
            IN Unless(<<tA2, tB2>>, Pi(e[2], tA2, tB2))
      [] Tag(e) = "App" -> NormalizeApp(e[2], e[3])
      [] Tag(e) = "Let" -> NormalizeLet(e[2], e[4], e[5])
      [] Tag(e) = "Annot" -> normalize(e[2])
      [] Tag(e) = "Builtin" -> e
      [] Tag(e) = "BoolLit" -> e
      [] Tag(e) = "BinOp" -> NormalizeBinOp(e[2], e[3], e[4])
      [] Tag(e) = "BoolIf" -> NormalizeBoolIf(e[2], e[3], e[4])
      [] Tag(e) = "NaturalLit" -> e
      [] Tag(e) = "IntegerLit" -> e
      [] Tag(e) = "DoubleLit" -> e
      [] Tag(e) = "TextLit" -> e
      [] Tag(e) = "ListLit" ->
            LET t2 == NormalizeSeq(e[2])
                es2 == NormalizeSeq(e[3])
            IN Unless(t2 \o es2, ListLit(t2, es2))
      [] Tag(e) = "OptionalLit" ->
            LET t2 == NormalizeSeq(e[2])
                es2 == NormalizeSeq(e[3])
            IN Unless(t2 \o es2, OptionalLit(t2, es2))
      [] Tag(e) = "Record" ->
            LET kts == map_record_value(e[2])
            IN Unless(Values(kts), Record(kts))
      [] Tag(e) = "RecordLit" ->
            LET kvs == map_record_value(e[2])
            IN Unless(Values(kvs), RecordLit(kvs))
      [] Tag(e) = "Union" ->
            LET kts == map_record_value(e[2])
            IN Unless(Values(kts), Union(kts))
      [] Tag(e) = "UnionLit" ->
            LET v == normalize(e[3])
                kvs == map_record_value(e[4])
            IN Unless(<<v>> \o Values(kvs), UnionLit(e[2], v, kvs))
      [] Tag(e) = "Merge" -> Panic("not implemented")
      [] Tag(e) = "Field" -> NormalizeField(e[2], e[3])
      [] Tag(e) = "Note" -> normalize(e[3])
      [] Tag(e) = "Embed" -> e
      [] OTHER -> Panic("not implemented")

(***************************************************************************)
(* Free variables: ctx is the sequence of the names of the enclosing       *)
(* binders; V(x, n) is bound when more than n of them are named x.         *)
(***************************************************************************)
Binders(ctx, x) == Cardinality({i \in 1..Len(ctx) : ctx[i] = x})

RECURSIVE ClosedUnder(_, _)
ClosedUnder(ctx, e) ==
    LET Cl(e2) == ClosedUnder(ctx, e2)
        ClSeq(es) == \A i \in 1..Len(es) : ClosedUnder(ctx, es[i])
        ClKv(kvs) == \A i \in 1..Len(kvs) : ClosedUnder(ctx, kvs[i][2])
    IN
    CASE Tag(e) = "Var" -> e[3] < Binders(ctx, e[2])
      [] Tag(e) \in {"Lam", "Pi"} -> Cl(e[3]) /\ ClosedUnder(ctx \o <<e[2]>>, e[4])
      [] Tag(e) = "App" -> Cl(e[2]) /\ Cl(e[3])
      [] Tag(e) = "Let" -> ClSeq(e[3]) /\ Cl(e[4]) /\ ClosedUnder(ctx \o <<e[2]>>, e[5])
      [] Tag(e) = "Annot" -> Cl(e[2]) /\ Cl(e[3])
      [] Tag(e) = "BinOp" -> Cl(e[3]) /\ Cl(e[4])
      [] Tag(e) = "BoolIf" -> Cl(e[2]) /\ Cl(e[3]) /\ Cl(e[4])
      [] Tag(e) \in {"ListLit", "OptionalLit"} -> ClSeq(e[2]) /\ ClSeq(e[3])
      [] Tag(e) \in {"Record", "RecordLit", "Union"} -> ClKv(e[2])
      [] Tag(e) = "UnionLit" -> Cl(e[3]) /\ ClKv(e[4])
      [] Tag(e) = "Merge" -> Cl(e[2]) /\ Cl(e[3]) /\ ClSeq(e[4])
      [] Tag(e) = "Field" -> Cl(e[2])
      [] Tag(e) = "Note" -> Cl(e[3])
      [] OTHER -> TRUE

Closed(e) == ClosedUnder(<<>>, e)

(* a free occurrence of V(x, n) *)
RECURSIVE OccursFree(_, _)
OccursFree(v, e) ==
    LET Oc(e2) == OccursFree(v, e2)
        under(y) == Var(v[2], IF y = v[2] THEN v[3] + 1 ELSE v[3])
        OcSeq(es) == \E i \in 1..Len(es) : OccursFree(v, es[i])
        OcKv(kvs) == \E i \in 1..Len(kvs) : OccursFree(v, kvs[i][2])
    IN
    CASE Tag(e) = "Var" -> e = v
      [] Tag(e) \in {"Lam", "Pi"} -> Oc(e[3]) \/ OccursFree(under(e[2]), e[4])
      [] Tag(e) = "App" -> Oc(e[2]) \/ Oc(e[3])
      [] Tag(e) = "Let" -> OcSeq(e[3]) \/ Oc(e[4]) \/ OccursFree(under(e[2]), e[5])
      [] Tag(e) = "Annot" -> Oc(e[2]) \/ Oc(e[3])
      [] Tag(e) = "BinOp" -> Oc(e[3]) \/ Oc(e[4])
      [] Tag(e) = "BoolIf" -> Oc(e[2]) \/ Oc(e[3]) \/ Oc(e[4])
      [] Tag(e) \in {"ListLit", "OptionalLit"} -> OcSeq(e[2]) \/ OcSeq(e[3])
      [] Tag(e) \in {"Record", "RecordLit", "Union"} -> OcKv(e[2])
      [] Tag(e) = "UnionLit" -> Oc(e[3]) \/ OcKv(e[4])
      [] Tag(e) = "Merge" -> Oc(e[2]) \/ Oc(e[3]) \/ OcSeq(e[4])
      [] Tag(e) = "Field" -> Oc(e[2])
      [] Tag(e) = "Note" -> Oc(e[3])
      [] OTHER -> FALSE

(***************************************************************************)
(* The expressions the kernel is run on.                                   *)
(***************************************************************************)
MaxNat == 1
MaxIndex == 1
MaxSteps == 2

Names == {"x", "y"}
Type == Const("Type")
Natural == Builtin("Natural")
Inc == BinOp("NaturalPlus", NaturalLit(1), NaturalLit(1))

(* { a : Natural } //\\ { b : Bool }, a type whose operator has no rule *)
RecType ==
    BinOp("CombineTypes", Record(<< <<"a", Natural>> >>), Record(<< <<"b", Builtin("Bool")>> >>))

(* [1] # [1 + 1] *)
Appended ==
    BinOp("ListAppend", ListLit(None, <<NaturalLit(1)>>), ListLit(None, <<Inc>>))

Types == {Type, Natural, RecType}

Leaves ==
    {Type, Natural, BoolLit(TRUE)}
        \cup {NaturalLit(n) : n \in 0..MaxNat}
        \cup {Var(x, i) : x \in Names, i \in 0..MaxIndex}

(* builders λ(L : Type) → λ(c : Natural → L → L) → λ(n : L) → body *)
Builder(body) ==
    Lam("L", Type,
        Lam("c", Pi("_", Natural, Pi("_", Var("L", 0), Var("L", 0))),
            Lam("n", Var("L", 0), body)))

Cons2(h, t) == App(App(Var("c", 0), h), t)

SpineBodies ==
    { Var("n", 0),
      Cons2(NaturalLit(1), Var("n", 0)),
      Cons2(Inc, Cons2(NaturalLit(0), Var("n", 0))),
      Cons2(Var("n", 0), Var("n", 0)),
      Cons2(Var("c", 0), Var("n", 0)),
      Cons2(Lam("Cons", Natural, Var("c", 0)), Var("n", 0)),
      NaturalLit(1),
      Var("Nil", 0),
      Var("x", 0),
      App(Var("c", 0), Var("n", 0)) }

Builders == {Builder(b) : b \in SpineBodies}

Build(t, k) == App(App(Builtin("ListBuild"), t), k)

Small ==
    Leaves
        \cup { Inc,
               Appended,
               Lam("x", Natural, Var("x", 0)),
               Lam("y", Natural, Var("x", 0)),
               Lam("x", Natural, BinOp("NaturalPlus", Var("x", 0), Var("x", 1))),
               App(Lam("y", Natural, Var("y", 0)), Inc),
               ListLit(None, <<NaturalLit(0), Inc>>),
               OptionalLit(Some(Natural), <<Inc>>),
               Build(Natural, Builder(Cons2(NaturalLit(1), Var("n", 0)))),
               Build(Natural, Builder(NaturalLit(1))),
               Annot(Inc, Natural),
               Note("src", Var("x", 0)) }

(* the operands of the fusion rules *)
FusionArgs == Small \cup Builders \cup {Build(Type, Builder(Var("x", 0)))}

FoldBuild ==
    { <<"ListBuild", "ListFold">>, <<"ListFold", "ListBuild">>,
      <<"OptionalBuild", "OptionalFold">>, <<"OptionalFold", "OptionalBuild">> }

(* the test section's fusion law, List/build _ (List/fold _ e) and the     *)
(* five other fold/build orders of the fusion paragraph of §4.4            *)
Fusion2(outer, inner, t1, t2, e) == App(App(Builtin(outer), t1), App(App(Builtin(inner), t2), e))
Fusion1(outer, inner, e) == App(Builtin(outer), App(Builtin(inner), e))
FusionLaw(t, e) == App(Builtin("ListBuild"), App(App(Builtin("ListFold"), t), e))

FusionInputs ==
    {Fusion2(p[1], p[2], t1, t2, e) : p \in FoldBuild, t1 \in {Natural, Inc}, t2 \in {Natural, Type}, e \in FusionArgs}
        \cup {Fusion1("NaturalBuild", "NaturalFold", e) : e \in FusionArgs}
        \cup {Fusion1("NaturalFold", "NaturalBuild", e) : e \in FusionArgs}
        \cup {FusionLaw(t, e) : t \in {Natural}, e \in FusionArgs}
        \cup {Fusion2("ListBuild", "ListFold", RecType, Natural, e) : e \in Leaves}
        \cup {Fusion2("ListBuild", "ListFold", Natural, RecType, e) : e \in Leaves}

(* Natural/fold n A succ zero *)
NaturalFold4(n, tA, succ, zero) ==
    App(App(App(App(Builtin("NaturalFold"), n), tA), succ), zero)

Succs == {Lam("x", Natural, BinOp("NaturalPlus", Var("x", 0), NaturalLit(1))), Var("y", 0)}

NaturalFoldInputs ==
    {NaturalFold4(NaturalLit(n), Natural, succ, zero) : n \in 0..MaxNat, succ \in Succs, zero \in Leaves}

ListBuiltins == {"ListLength", "ListHead", "ListLast", "ListReverse", "ListIndexed"}

Lists ==
    { ListLit(None, <<>>),
      ListLit(Some(Natural), <<NaturalLit(0), Inc>>),
      ListLit(None, <<NaturalLit(1), Var("x", 0), NaturalLit(0)>>) }

Optionals == {OptionalLit(Some(Natural), <<>>), OptionalLit(None, <<Inc>>)}

RecordInputs ==
    LET r == RecordLit(<< <<"a", Inc>>, <<"b", Var("x", 0)>> >>)
    IN { r, Field(r, "a"), Field(r, "c"), Field(Var("x", 0), "a"),
         Record(<< <<"a", Natural>> >>),
         Union(<< <<"A", Natural>> >>),
         UnionLit("A", Inc, << <<"B", Natural>> >>),
         Merge(r, Var("x", 0), None),
         Embed("import"),
         IntegerLit(1), DoubleLit(1),
         BinOp("TextAppend", TextLit(<<"a">>), TextLit(<<"b">>)),
         App(Builtin("NaturalShow"), Inc) }

(* applications no rule of the normalizer is written for *)
NaturalBuiltins ==
    {"NaturalIsZero", "NaturalEven", "NaturalOdd", "NaturalToInteger", "NaturalShow"}

StuckInputs ==
    {App(Builtin(b), a) : b \in NaturalBuiltins,
                          a \in {BoolLit(TRUE), TextLit(<<"a">>), Var("x", 0), Inc}}
        \cup {App(App(Builtin(b), Natural), a) : b \in ListBuiltins,
                                                  a \in {Var("x", 0), NaturalLit(0)}}
        \cup {App(App(Var("y", 0), Inc), l) : l \in Lists}
        \cup {App(App(App(App(App(Builtin(b), Natural), Var("x", 0)), Natural), Var("y", 0)), Inc) :
                 b \in {"ListFold", "OptionalFold"}}

(* operators on literals, on records and on other operands *)
BoolOperands == {BoolLit(TRUE), BoolLit(FALSE), Var("x", 0), BinOp("BoolEQ", BoolLit(TRUE), BoolLit(TRUE))}

TextOperands == {TextLit(<<>>), TextLit(<<"a">>), TextLit(<<"b", "c">>), Var("x", 0), NaturalLit(1)}

Records ==
    { RecordLit(<< <<"a", Inc>> >>),
      RecordLit(<< <<"a", NaturalLit(0)>>, <<"b", Var("x", 0)>> >>),
      Record(<< <<"a", Natural>> >>),
      Record(<< <<"b", Builtin("Bool")>> >>),
      Var("x", 0) }

OperatorInputs ==
    {BinOp(o, a, b) : o \in {"BoolAnd", "BoolOr", "BoolEQ", "BoolNE"},
                      a \in BoolOperands, b \in BoolOperands}
        \cup {BinOp("TextAppend", a, b) : a \in TextOperands, b \in TextOperands}
        \cup {BinOp(o, a, b) : o \in {"NaturalPlus", "NaturalTimes"},
                               a \in {Inc, BoolLit(TRUE)}, b \in {Inc, NaturalLit(MaxNat)}}
        \cup {BinOp(o, l, r) : o \in {"Combine", "CombineTypes", "Prefer"},
                               l \in Records, r \in Records}
        \cup {BinOp("ListAppend", l, r) : l \in Lists, r \in Lists}

(* builders whose result starts as a spine and ends in something else *)
PartialSpines ==
    {Build(Natural, Builder(b)) :
        b \in { Cons2(NaturalLit(1), Var("x", 0)),
                Cons2(Inc, Cons2(NaturalLit(0), NaturalLit(1))),
                Cons2(NaturalLit(0), App(Var("c", 0), Var("n", 0))),
                Cons2(NaturalLit(0), Cons2(Var("Nil", 0), Var("Nil", 1))) }}

(* beta and let redexes whose argument mentions the bound name *)
BetaBodies(x) ==
    {Var(x, 0), Var(x, 1), Lam(x, Natural, Var(x, 1)),
     Lam("y", Natural, BinOp("NaturalPlus", Var(x, 0), Var(x, 1)))}

BetaArgs(x) == {Var(x, 0), Var(x, 1), Lam(x, Natural, Var(x, 1)), Var("y", 0)}

BetaInputs ==
    UNION {{App(Lam(x, Natural, b), a) : b \in BetaBodies(x), a \in BetaArgs(x)}
               \cup {Let(x, None, a, b) : b \in BetaBodies(x), a \in BetaArgs(x)} :
           x \in Names}

(* r.x on record literals, on terms that become one, and on others *)
FieldInputs ==
    LET ab == RecordLit(<< <<"a", NaturalLit(1)>>, <<"b", Inc>> >>)
    IN {Field(r, k) : r \in {ab, RecordLit(<<>>), Var("x", 0),
                              App(Lam("y", Natural, RecordLit(<< <<"b", Var("y", 0)>> >>)), Inc),
                              BoolIf(BoolLit(TRUE), ab, Var("x", 0)),
                              Field(RecordLit(<< <<"a", ab>> >>), "a")},
                      k \in {"a", "b", "c"}}

Inputs ==
    Small
        \cup {App(f, a) : f \in Small, a \in Small}
        \cup {Lam(x, t, b) : x \in Names, t \in Types, b \in Small}
        \cup {Pi(x, t, b) : x \in Names, t \in {Natural}, b \in Leaves}
        \cup {App(Lam(x, t, Var(x, 0)), a) : x \in Names, t \in Types, a \in Small}
        \cup {Let(x, mt, r, b) : x \in Names, mt \in {None, Some(RecType)}, r \in Small,
                                 b \in Leaves \cup {Lam("x", Natural, Var("x", 1)),
                                                    Lam("y", Natural, Var("x", 0))}}
        \cup {BinOp(o, a, b) : o \in {"BoolAnd", "BoolEQ", "NaturalPlus", "NaturalTimes", "Prefer"},
                               a \in Leaves, b \in Leaves}
        \cup {BoolIf(c, t, f) : c \in {BoolLit(TRUE), BoolLit(FALSE), Var("x", 0)},
                                t \in {Inc, Var("x", 0)}, f \in {Inc, Appended}}
        \cup FusionInputs
        \cup {Build(t, k) : t \in {Natural, Inc}, k \in Builders}
        \cup {Lam(x, Natural, Build(Natural, k)) : x \in {"x", "Nil", "Cons"}, k \in Builders}
        \cup NaturalFoldInputs
        \cup {App(App(Builtin(b), Natural), l) : b \in ListBuiltins, l \in Lists}
        \cup {App(App(App(App(App(Builtin("ListFold"), Natural), l), Natural), cons), nil) :
                 l \in Lists, cons \in {Var("y", 0), Lam("h", Natural, Lam("t", Natural, Var("h", 0)))},
                 nil \in {NaturalLit(0), Var("x", 0)}}
        \cup {App(App(App(App(App(Builtin("OptionalFold"), Natural), o), Natural), just), nothing) :
                 o \in Optionals, just \in {Var("y", 0), Lam("x", Natural, Var("x", 0))},
                 nothing \in {NaturalLit(0)}}
        \cup {App(App(Builtin("OptionalBuild"), t), g) :
                 t \in {Natural, Var("x", 0)},
                 g \in {Var("y", 0),
                        Lam("O", Type, Lam("j", Natural, Lam("n", Var("O", 0), Var("n", 0)))),
                        Lam("O", Type, Lam("j", Natural, Lam("n", Var("O", 0),
                                                           App(Var("j", 0), Inc))))}}
        \cup RecordInputs
        \cup StuckInputs
        \cup OperatorInputs
        \cup FieldInputs
        \cup PartialSpines
        \cup BetaInputs

(* the variables shift and subst are called on *)
ShiftVars == {Var(x, m) : x \in Names, m \in 0..MaxIndex}

(***************************************************************************)
(* The state: expr is the expression in hand, prev the one the last        *)
(* operation op was applied to, arg the variable of a shift or subst.      *)
(* A caller may shift or substitute in the input expression, and then      *)
(* normalizes, up to MaxSteps operations in all.                           *)
(***************************************************************************)
Init ==
    /\ expr \in Inputs
    /\ prev = expr
    /\ op = "init"
    /\ arg = <<>>
    /\ steps = 0

(* normalize(e) *)
Normalize ==
    /\ steps < MaxSteps
    /\ ~IsPanic(expr)
    /\ expr' = normalize(expr)
    /\ prev' = expr
    /\ op' = "normalize"
    /\ arg' = <<>>
    /\ steps' = steps + 1

(* shift(+1, v, e) *)
ShiftUp ==
    /\ steps = 0
    /\ ~IsPanic(expr)
    /\ \E v \in ShiftVars :
          /\ expr' = shift(1, v, expr)
          /\ arg' = v
    /\ prev' = expr
    /\ op' = "shiftUp"
    /\ steps' = steps + 1

(* shift(-1, v, e), on a term in which no index would fall below zero *)
ShiftDown ==
    /\ steps = 0
    /\ ~IsPanic(expr)
    /\ \E v \in ShiftVars :
          /\ v[3] = 0 => ~OccursFree(v, expr)
          /\ expr' = shift(-1, v, expr)
          /\ arg' = v
    /\ prev' = expr
    /\ op' = "shiftDown"
    /\ steps' = steps + 1

(* subst(v, r, e) *)
Subst ==
    /\ steps = 0
    /\ ~IsPanic(expr)
    /\ \E v \in ShiftVars, r \in {NaturalLit(0), Var("y", 0)} :
          /\ expr' = subst(v, r, expr)
          /\ arg' = v
    /\ prev' = expr
    /\ op' = "subst"
    /\ steps' = steps + 1

Next == Normalize \/ ShiftUp \/ ShiftDown \/ Subst

Spec == Init /\ [][Next]_vars

(***************************************************************************)
(* Properties                                                              *)
(***************************************************************************)
Normalized == op = "normalize"

(* C1: normalize never raises: on every input expression, those with       *)
(* Merge, ListAppend, Combine, CombineTypes, Prefer or ImportAlt nodes     *)
(* included, it returns an expression and does not panic.                  *)
C1_NormalizeNeverPanics == Normalized => ~IsPanic(expr)

(* C2: normalize is idempotent on closed expressions: when normalize       *)
(* returns on a closed e, normalizing the result again gives the result.   *)
C2_Idempotent ==
    (Normalized /\ Closed(prev) /\ ~IsPanic(expr)) => normalize(expr) = expr

C2_Witness ==
    /\ Normalized
    /\ Closed(prev)
    /\ Tag(prev) = "App"
    /\ Tag(prev[2]) = "Lam"
    /\ Tag(expr) = "NaturalLit"

(* C3: shift(-1, v, shift(+1, v, e)) = e for every variable v and every    *)
(* expression e, and the +1 / -1 pair around the substitution of beta and  *)
(* let reduction gives back the argument it was applied to.                *)
C3_ShiftRoundTrip ==
    /\ op = "shiftUp" => shift(-1, arg, expr) = prev
    /\ ~IsPanic(expr) =>
          /\ \A v \in ShiftVars : shift(-1, v, shift(1, v, expr)) = expr
          /\ \A x \in Names :
                /\ BetaSubst(x, expr, Var(x, 0)) = expr
                /\ LetSubst(x, expr, Var(x, 0)) = expr

C3_Witness ==
    /\ op = "shiftUp"
    /\ expr # prev
    /\ Tag(prev) = "Lam"
    /\ OccursFree(arg, prev[4])

(* C4: normalize(App(Lam(x, T, Var(V(x, 0))), a)) = normalize(a) for every *)
(* label x, type T and argument a, also when V(x, n) is free in a.         *)
IsIdentityApp(e) ==
    Tag(e) = "App" /\ Tag(e[2]) = "Lam" /\ e[2][4] = Var(e[2][2], 0)

C4_IdentityLambda ==
    (Normalized /\ IsIdentityApp(prev)) => expr = normalize(prev[3])

(* C5: normalize(Let(x, _, r, Var(V(x, 0)))) = normalize(r); in general    *)
(* normalize(Let(x, _, r, b)) is the normal form of b with V(x, 0)         *)
(* replaced by r, whatever the annotation.                                 *)
Annotations == {None, Some(Natural), Some(RecType), Some(Var("x", 0))}

C5_LetElimination ==
    (Normalized /\ Tag(prev) = "Let") =>
        LET x == prev[2]
            r == prev[4]
            b == prev[5]
        IN /\ b = Var(x, 0) => expr = normalize(r)
           /\ expr = normalize(shift(-1, Var(x, 0),
                                     subst(Var(x, 0), shift(1, Var(x, 0), r), b)))
           /\ \A mt \in Annotations : normalize(Let(x, mt, r, b)) = expr

C5_Witness ==
    /\ Normalized
    /\ Tag(prev) = "Let"
    /\ prev[3] # None
    /\ prev[5] = Var(prev[2], 0)
    /\ OccursFree(Var(prev[2], 0), prev[4])
    /\ ~IsPanic(expr)

(* C4, where normalize returns on the type T of the lambda *)
IdentityLambdaTypeReturns ==
    (Normalized /\ IsIdentityApp(prev) /\ ~IsPanic(normalize(prev[2][3]))) =>
        expr = normalize(prev[3])

(* C6: the fusion law of the test section,                                 *)
(* normalize(App(Builtin(ListBuild), App(App(Builtin(ListFold), T), e)))   *)
(* = normalize(e) for every T and e.                                       *)
IsFusionLaw(e) == IsBuiltin(e[2], "ListBuild") /\ IsApp2(e[3], "ListFold")

IsFusion2(e, outer, inner) == IsApp1(e[2], outer) /\ IsApp2(e[3], inner)

IsFusion1(e, outer, inner) == IsBuiltin(e[2], outer) /\ IsApp1(e[3], inner)

C7_FusionBothOrders ==
    (Normalized /\ Tag(prev) = "App") =>
        /\ (\E p \in FoldBuild : IsFusion2(prev, p[1], p[2])) => expr = normalize(prev[3][3])
        /\ (IsFusion1(prev, "NaturalBuild", "NaturalFold")
               \/ IsFusion1(prev, "NaturalFold", "NaturalBuild")) => expr = normalize(prev[3][3])

(* C8: alpha-insensitivity: renaming the binder of a lambda (and its       *)
(* references) to a name that occurs nowhere renames the normal form the   *)
(* same way, whatever name the binder carried, "Cons", "Nil" and "x"       *)
(* included.                                                               *)
Fresh == "z"

RenameLam(e, y) ==
    Lam(y, e[3],
        shift(-1, Var(e[2], 0), subst(Var(e[2], 0), Var(y, 0), shift(1, Var(y, 0), e[4]))))

C8_AlphaInsensitive ==
    (Normalized /\ Tag(prev) = "Lam" /\ ~IsPanic(expr)) =>
        normalize(RenameLam(prev, Fresh)) = RenameLam(expr, Fresh)

(* C9: normalize preserves closedness: the normal form of an expression    *)
(* without free variables has none; the placeholders "Cons" and "Nil" of   *)
(* List/build do not appear in it.                                         *)
C9_PreservesClosedness ==
    (Normalized /\ Closed(prev) /\ ~IsPanic(expr)) => Closed(expr)

(* C10: Natural/fold n A succ zero with n a NaturalLit normalizes to the   *)
(* normal form of succ applied n times to zero.                            *)
RECURSIVE Iterate(_, _, _)
Iterate(succ, n, zero) ==
    IF n = 0 THEN zero ELSE App(succ, Iterate(succ, n - 1, zero))

IsNaturalFold4(e) ==
    /\ Tag(e) = "App"
    /\ Tag(e[2]) = "App"
    /\ Tag(e[2][2]) = "App"
    /\ IsApp1(e[2][2][2], "NaturalFold")
    /\ Tag(e[2][2][2][3]) = "NaturalLit"

C10_NaturalFoldLiteral ==
    (Normalized /\ IsNaturalFold4(prev)) =>
        expr = normalize(Iterate(prev[2][3], prev[2][2][2][3][2], prev[3]))

(* C11: List/fold is a right fold: List/fold A [x1, ..., xn] B cons nil    *)
(* normalizes to the normal form of cons x1 (cons x2 (... (cons xn nil))), *)
(* the element being the first argument of each call and the accumulated   *)
(* result the second; for the empty list the result is normalize(nil).     *)
RECURSIVE RightFold(_, _, _)
RightFold(cons, xs, nil) ==
    IF xs = <<>> THEN nil
    ELSE App(App(cons, Head(xs)), RightFold(cons, Tail(xs), nil))

IsListFold5(e) == Tag(e) = "App" /\ IsFold4(e[2], "ListFold", "ListLit")

C11_ListFoldRight ==
    (Normalized /\ IsListFold5(prev)) =>
        expr = normalize(RightFold(prev[2][3], prev[2][2][2][3][3], prev[3]))

(* C12: Optional/fold _ (OptionalLit _ xs) _ just nothing normalizes to    *)
(* the normal form of just x when xs holds exactly one item x, and to      *)
(* normalize(nothing) when xs is empty.                                    *)
IsOptionalFold5(e) == Tag(e) = "App" /\ IsFold4(e[2], "OptionalFold", "OptionalLit")

C12_OptionalFoldLiteral ==
    (Normalized /\ IsOptionalFold5(prev)) =>
        LET xs == prev[2][2][2][3][3]
            just == prev[2][3]
            nothing == prev[3]
        IN /\ Len(xs) = 1 => expr = normalize(App(just, xs[1]))
           /\ xs = <<>> => expr = normalize(nothing)

(* C13: List/build A g is evaluated as g applied to (List A), a cons and a *)
(* nil; when the normalized result is a spine made only of cons            *)
(* applications ending in nil, the result is ListLit(A, items) with the    *)
(* items in spine order (head first), otherwise the redex List/build A g'  *)
(* (g' normalized) is returned unchanged.  The rule is the one applied     *)
(* where g' is not List/fold _ e, which fusion takes first (§4.4).         *)
RECURSIVE IsSpine(_)
IsSpine(e) ==
    \/ IsVarNamed(e, "Nil")
    \/ /\ Tag(e) = "App"
       /\ Tag(e[2]) = "App"
       /\ IsVarNamed(e[2][2], "Cons")
       /\ IsSpine(e[3])

RECURSIVE SpineItems(_)
SpineItems(e) ==
    IF IsVarNamed(e, "Nil") THEN <<>> ELSE <<e[2][3]>> \o SpineItems(e[3])

IsListBuild(e) == Tag(e) = "App" /\ IsApp1(e[2], "ListBuild")

C13_WitnessRedex ==
    /\ Normalized
    /\ IsListBuild(prev)
    /\ Tag(prev[3]) = "Lam"
    /\ prev[2][3] # normalize(prev[2][3])
    /\ IsListBuild(expr)

(* C14: List/head A (ListLit _ xs) normalizes to OptionalLit(A, xs[:1])    *)
(* and List/last A (ListLit _ xs) to OptionalLit(A, xs[-1:]): the result   *)
(* is annotated with the type argument A of the builtin and holds the      *)
(* first (resp. last) item of xs, or no item when xs is empty.             *)
IsListOp(e, b) == Tag(e) = "App" /\ IsApp1(e[2], b) /\ Tag(e[3]) = "ListLit"

First1(xs) == IF xs = <<>> THEN <<>> ELSE <<xs[1]>>

Last1(xs) == IF xs = <<>> THEN <<>> ELSE <<xs[Len(xs)]>>

C14_ListHeadLast ==
    Normalized =>
        /\ IsListOp(prev, "ListHead") =>
               expr = normalize(OptionalLit(Some(prev[2][3]), First1(prev[3][3])))
        /\ IsListOp(prev, "ListLast") =>
               expr = normalize(OptionalLit(Some(prev[2][3]), Last1(prev[3][3])))

(* C15: ListAppend of two list literals normalizes to one ListLit holding  *)
(* the left operand's items followed by the right operand's, with the      *)
(* element type of the left operand if present; [1,2,3] # [4,5] yields     *)
(* ListLit(None, [1,2,3,4,5]).                                             *)
IsAppendOfLiterals(e) ==
    /\ Tag(e) = "BinOp"
    /\ e[2] = "ListAppend"
    /\ Tag(e[3]) = "ListLit"
    /\ Tag(e[4]) = "ListLit"

C15_ListAppend ==
    (Normalized /\ IsAppendOfLiterals(prev)) =>
        expr = normalize(ListLit(prev[3][2], prev[3][3] \o prev[4][3]))

(* C16: for BinOp(Combine | CombineTypes | Prefer, l, r), normalize        *)
(* normalizes both operands; when both are records the fields are merged   *)
(* (Prefer keeps the right-hand value on a colliding label, Combine and    *)
(* CombineTypes recursively combine colliding fields), and when they are   *)
(* not both records the BinOp is returned with normalized children.        *)
RecordOps == {"Combine", "CombineTypes", "Prefer"}

IsRecord(e) == Tag(e) \in {"RecordLit", "Record"}

KeySet(kvs) == {kvs[i][1] : i \in 1..Len(kvs)}

MergedAs(o, l, r, e) ==
    /\ Tag(e) = Tag(l)
    /\ KeySet(e[2]) = KeySet(l[2]) \cup KeySet(r[2])
    /\ \A k \in KeySet(e[2]) :
          Get(e[2], k) =
              IF ~HasKey(r[2], k) THEN Get(l[2], k)
              ELSE IF ~HasKey(l[2], k) \/ o = "Prefer" THEN Get(r[2], k)
              ELSE normalize(BinOp(o, Get(l[2], k), Get(r[2], k)))

C16_RecordOperators ==
    (Normalized /\ Tag(prev) = "BinOp" /\ prev[2] \in RecordOps) =>
        LET l == normalize(prev[3])
            r == normalize(prev[4])
        IN (~IsPanic(l) /\ ~IsPanic(r)) =>
               IF IsRecord(l) /\ Tag(r) = Tag(l) THEN MergedAs(prev[2], l, r, expr)
               ELSE (IsRecord(l) /\ IsRecord(r)) \/ expr = BinOp(prev[2], l, r)

(* C17: List/indexed A (ListLit T xs) normalizes to a ListLit whose        *)
(* element type is the record type {index : Natural, value : T} and whose  *)
(* i-th item is the record literal {index = i, value = xs[i]}, for i from  *)
(* 0 in list order.                                                        *)
Indexed(t, xs) ==
    ListLit(Some(Record(<< <<"index", Natural>>, <<"value", t>> >>)),
            [i \in 1..Len(xs) |->
                RecordLit(<< <<"index", NaturalLit(i - 1)>>, <<"value", xs[i]>> >>)])

C17_ListIndexed ==
    (Normalized /\ IsListOp(prev, "ListIndexed") /\ prev[3][2] # None) =>
        expr = normalize(Indexed(prev[3][2][1], prev[3][3]))

(* C18: stuck redexes are preserved: an application whose normalized head  *)
(* f' is not a lambda and whose (f', a') pair matches no built-in rule     *)
(* (a builtin applied to an operand of the wrong literal kind, or to a     *)
(* variable) normalizes to App(f', a') with both sides normalized, without *)
(* error and without any other rewriting.                                  *)
(* MatchesRule lists the heads of the built-in rewrites of §4.4.           *)
MatchesRule(f2, a2) ==
    \/ Tag(f2) = "Builtin" /\ f2[2] \in NaturalBuiltins /\ Tag(a2) = "NaturalLit"
    \/ IsBuiltin(f2, "NaturalBuild")
    \/ IsBuiltin(f2, "NaturalFold") /\ IsApp1(a2, "NaturalBuild")
    \/ /\ Tag(f2) = "App"
       /\ Tag(f2[2]) = "App"
       /\ IsApp1(f2[2][2], "NaturalFold")
       /\ Tag(f2[2][2][3]) = "NaturalLit"
    \/ IsApp1(f2, "ListBuild")
    \/ IsApp1(f2, "ListFold") /\ IsApp2(a2, "ListBuild")
    \/ IsFold4(f2, "ListFold", "ListLit")
    \/ (\E b \in ListBuiltins : IsApp1(f2, b)) /\ Tag(a2) = "ListLit"
    \/ IsApp1(f2, "OptionalBuild")
    \/ IsApp1(f2, "OptionalFold") /\ IsApp2(a2, "OptionalBuild")
    \/ IsFold4(f2, "OptionalFold", "OptionalLit")

C18_StuckRedexPreserved ==
    (Normalized /\ Tag(prev) = "App") =>
        LET f2 == normalize(prev[2])
            a2 == normalize(prev[3])
        IN (~IsPanic(f2) /\ Tag(f2) # "Lam" /\ ~IsPanic(a2) /\ ~MatchesRule(f2, a2)) =>
               expr = App(f2, a2)

C18_Witness ==
    /\ Normalized
    /\ Tag(prev) = "App"
    /\ Tag(prev[2]) = "Builtin"
    /\ prev[2][2] \in NaturalBuiltins
    /\ Tag(prev[3]) \in {"BoolLit", "Var"}
    /\ expr = prev

(* a stuck application whose children were normalized *)
C18_WitnessChildren ==
    /\ Normalized
    /\ Tag(prev) = "App"
    /\ Tag(prev[3]) = "ListLit"
    /\ ~MatchesRule(normalize(prev[2]), normalize(prev[3]))
    /\ Tag(expr) = "App"
    /\ expr # prev

(* C19: notes and annotations are transparent: normalize(Note(s, e)) =     *)
(* normalize(e) and normalize(Annot(e, T)) = normalize(e); wrapping any    *)
(* sub-expression of an input in Note or Annot, at any depth (the head of  *)
(* an application, the condition of an if, the record under a Field), does *)
(* not change the normal form; the output of normalize holds no Note or    *)
(* Annot node.                                                             *)
Wrappers(e) == {Note("src", e), Annot(e, Natural), Annot(e, RecType)}

RECURSIVE Wraps(_)

(* es with one of its items replaced by one of its wrappings *)
WrapsSeq(es) ==
    UNION {{[es EXCEPT ![i] = w] : w \in Wraps(es[i])} : i \in 1..Len(es)}

WrapsKv(kvs) ==
    UNION {{[kvs EXCEPT ![i] = <<kvs[i][1], w>>] : w \in Wraps(kvs[i][2])} : i \in 1..Len(kvs)}

(* e with exactly one of its sub-expressions, e included, wrapped *)
Wraps(e) ==
    Wrappers(e) \cup
    CASE Tag(e) \in {"Lam", "Pi"} ->
            {<<Tag(e), e[2], w, e[4]>> : w \in Wraps(e[3])}
                \cup {<<Tag(e), e[2], e[3], w>> : w \in Wraps(e[4])}
      [] Tag(e) = "App" ->
            {App(w, e[3]) : w \in Wraps(e[2])} \cup {App(e[2], w) : w \in Wraps(e[3])}
      [] Tag(e) = "Let" ->
            {Let(e[2], w, e[4], e[5]) : w \in WrapsSeq(e[3])}
                \cup {Let(e[2], e[3], w, e[5]) : w \in Wraps(e[4])}
                \cup {Let(e[2], e[3], e[4], w) : w \in Wraps(e[5])}
      [] Tag(e) = "Annot" ->
            {Annot(w, e[3]) : w \in Wraps(e[2])} \cup {Annot(e[2], w) : w \in Wraps(e[3])}
      [] Tag(e) = "BinOp" ->
            {BinOp(e[2], w, e[4]) : w \in Wraps(e[3])}
                \cup {BinOp(e[2], e[3], w) : w \in Wraps(e[4])}
      [] Tag(e) = "BoolIf" ->
            {BoolIf(w, e[3], e[4]) : w \in Wraps(e[2])}
                \cup {BoolIf(e[2], w, e[4]) : w \in Wraps(e[3])}
                \cup {BoolIf(e[2], e[3], w) : w \in Wraps(e[4])}
      [] Tag(e) \in {"ListLit", "OptionalLit"} ->
            {<<Tag(e), w, e[3]>> : w \in WrapsSeq(e[2])}
                \cup {<<Tag(e), e[2], w>> : w \in WrapsSeq(e[3])}
      [] Tag(e) \in {"Record", "RecordLit", "Union"} ->
            {<<Tag(e), w>> : w \in WrapsKv(e[2])}
      [] Tag(e) = "UnionLit" ->
            {UnionLit(e[2], w, e[4]) : w \in Wraps(e[3])}
                \cup {UnionLit(e[2], e[3], w) : w \in WrapsKv(e[4])}
      [] Tag(e) = "Merge" ->
            {Merge(w, e[3], e[4]) : w \in Wraps(e[2])}
                \cup {Merge(e[2], w, e[4]) : w \in Wraps(e[3])}
                \cup {Merge(e[2], e[3], w) : w \in WrapsSeq(e[4])}
      [] Tag(e) = "Field" -> {Field(w, e[3]) : w \in Wraps(e[2])}
      [] Tag(e) = "Note" -> {Note(e[2], w) : w \in Wraps(e[3])}
      [] OTHER -> {}

RECURSIVE NoNotes(_)
NoNotes(e) ==
    LET NoSeq(es) == \A i \in 1..Len(es) : NoNotes(es[i])
        NoKv(kvs) == \A i \in 1..Len(kvs) : NoNotes(kvs[i][2])
    IN
    CASE Tag(e) \in {"Note", "Annot"} -> FALSE
      [] Tag(e) \in {"Lam", "Pi"} -> NoNotes(e[3]) /\ NoNotes(e[4])
      [] Tag(e) = "App" -> NoNotes(e[2]) /\ NoNotes(e[3])
      [] Tag(e) = "Let" -> NoSeq(e[3]) /\ NoNotes(e[4]) /\ NoNotes(e[5])
      [] Tag(e) = "BinOp" -> NoNotes(e[3]) /\ NoNotes(e[4])
      [] Tag(e) = "BoolIf" -> NoNotes(e[2]) /\ NoNotes(e[3]) /\ NoNotes(e[4])
      [] Tag(e) \in {"ListLit", "OptionalLit"} -> NoSeq(e[2]) /\ NoSeq(e[3])
      [] Tag(e) \in {"Record", "RecordLit", "Union"} -> NoKv(e[2])
      [] Tag(e) = "UnionLit" -> NoNotes(e[3]) /\ NoKv(e[4])
      [] Tag(e) = "Merge" -> NoNotes(e[2]) /\ NoNotes(e[3]) /\ NoSeq(e[4])
      [] Tag(e) = "Field" -> NoNotes(e[2])
      [] OTHER -> TRUE

C19_NotesTransparent ==
    Normalized =>
        /\ Tag(prev) = "Note" => expr = normalize(prev[3])
        /\ Tag(prev) = "Annot" => expr = normalize(prev[2])
        /\ ~IsPanic(expr) => NoNotes(expr)
        /\ steps = 1 => \A w \in Wraps(prev) : normalize(w) = expr

C19_Witness ==
    /\ Normalized
    /\ steps = 1
    /\ Tag(prev) = "App"
    /\ Tag(prev[2]) \in {"Note", "Annot"}
    /\ ~NoNotes(prev[3])
    /\ ~IsPanic(expr)
    /\ NoNotes(expr)

(* the record under a Field, which C19's wrappings hide behind a Note *)
C19_WitnessField ==
    /\ Normalized
    /\ steps = 1
    /\ Tag(prev) = "Field"
    /\ Tag(prev[2]) = "RecordLit"
    /\ Tag(expr) = "NaturalLit"

(* C20: each of BoolAnd, BoolOr, BoolEQ, BoolNE (on two BoolLit),          *)
(* NaturalPlus, NaturalTimes (on two NaturalLit) and TextAppend (on two    *)
(* TextLit) reduces to the literal of the operation's result exactly when  *)
(* both normalized operands are literals of the operator's kind; in every  *)
(* other case, one literal operand such as x && True included, the result  *)
(* is BinOp(op, x', y') with both children normalized and the operand      *)
(* order kept.                                                             *)
LiteralOps ==
    {"BoolAnd", "BoolOr", "BoolEQ", "BoolNE", "NaturalPlus", "NaturalTimes", "TextAppend"}

LiteralKind(o) ==
    IF o \in {"NaturalPlus", "NaturalTimes"} THEN "NaturalLit"
    ELSE IF o = "TextAppend" THEN "TextLit"
    ELSE "BoolLit"

LiteralResult(o, a, b) ==
    CASE o = "BoolAnd" -> IF a THEN b ELSE FALSE
      [] o = "BoolOr" -> IF a THEN TRUE ELSE b
      [] o = "BoolEQ" -> (a <=> b)
      [] o = "BoolNE" -> ~(a <=> b)
      [] o = "NaturalPlus" -> a + b
      [] o = "NaturalTimes" -> a * b
      [] o = "TextAppend" -> a \o b

C20_LiteralOperators ==
    (Normalized /\ Tag(prev) = "BinOp" /\ prev[2] \in LiteralOps) =>
        LET o == prev[2]
            x2 == normalize(prev[3])
            y2 == normalize(prev[4])
            kind == LiteralKind(o)
        IN (~IsPanic(x2) /\ ~IsPanic(y2)) =>
               IF Tag(x2) = kind /\ Tag(y2) = kind
               THEN expr = <<kind, LiteralResult(o, x2[2], y2[2])>>
               ELSE expr = BinOp(o, x2, y2)

(* x && True is left in place *)
C20_Witness ==
    /\ Normalized
    /\ Tag(prev) = "BinOp"
    /\ prev[2] = "BoolAnd"
    /\ Tag(prev[3]) = "Var"
    /\ prev[4] = BoolLit(TRUE)
    /\ expr = prev

(* an operand that becomes a literal by its own reduction *)
C20_WitnessReduced ==
    /\ Normalized
    /\ Tag(prev) = "BinOp"
    /\ prev[2] = "NaturalTimes"
    /\ Tag(prev[3]) = "BinOp"
    /\ Tag(expr) = "NaturalLit"

(* C21: when r normalizes to a record literal with fields kvs, Field(r, x) *)
(* normalizes to the normal form of kvs[x] if x is a key, and otherwise to *)
(* Field(RecordLit(kvs'), x) with every field value normalized and the key *)
(* set unchanged; when r does not normalize to a record literal the result *)
(* is Field(r', x).                                                        *)
C21_FieldProjection ==
    (Normalized /\ Tag(prev) = "Field") =>
        LET r2 == normalize(prev[2])
            x == prev[3]
        IN ~IsPanic(r2) =>
               IF Tag(r2) # "RecordLit" THEN expr = Field(r2, x)
               ELSE IF x \in KeySet(r2[2])
               THEN \E i \in 1..Len(r2[2]) :
                       r2[2][i][1] = x /\ expr = normalize(r2[2][i][2])
               ELSE /\ Tag(expr) = "Field"
                    /\ expr[3] = x
                    /\ Tag(expr[2]) = "RecordLit"
                    /\ Len(expr[2][2]) = Len(r2[2])
                    /\ \A i \in 1..Len(r2[2]) :
                          expr[2][2][i] = <<r2[2][i][1], normalize(r2[2][i][2])>>

(* { a = 1, b = 1 + 1 }.b, the second field of the literal *)
C21_Witness ==
    /\ Normalized
    /\ Tag(prev) = "Field"
    /\ Tag(prev[2]) = "RecordLit"
    /\ Len(prev[2][2]) = 2
    /\ prev[3] = prev[2][2][2][1]
    /\ expr = normalize(prev[2][2][2][2])
    /\ expr # normalize(prev[2][2][1][2])

(* a key the record literal does not hold *)
C21_WitnessMissing ==
    /\ Normalized
    /\ Tag(prev) = "Field"
    /\ Tag(prev[2]) # "RecordLit"
    /\ Tag(expr) = "Field"
    /\ Tag(expr[2]) = "RecordLit"
    /\ expr[2][2] # <<>>

(* C28: no negative index in beta / let reduction: in shift(-1, V(x,0),    *)
(* subst(V(x,0), shift(+1, V(x,0), a), b)), after the substitution no free *)
(* occurrence of V(x,0) remains, so the final shift(-1) never decrements   *)
(* an index that is 0 and every variable index of the result is            *)
(* non-negative, for every b and a.                                        *)
RECURSIVE NonNegative(_)
NonNegative(e) ==
    LET NnSeq(es) == \A i \in 1..Len(es) : NonNegative(es[i])
        NnKv(kvs) == \A i \in 1..Len(kvs) : NonNegative(kvs[i][2])
    IN
    CASE Tag(e) = "Var" -> e[3] >= 0
      [] Tag(e) \in {"Lam", "Pi"} -> NonNegative(e[3]) /\ NonNegative(e[4])
      [] Tag(e) = "App" -> NonNegative(e[2]) /\ NonNegative(e[3])
      [] Tag(e) = "Let" -> NnSeq(e[3]) /\ NonNegative(e[4]) /\ NonNegative(e[5])
      [] Tag(e) = "Annot" -> NonNegative(e[2]) /\ NonNegative(e[3])
      [] Tag(e) = "BinOp" -> NonNegative(e[3]) /\ NonNegative(e[4])
      [] Tag(e) = "BoolIf" -> NonNegative(e[2]) /\ NonNegative(e[3]) /\ NonNegative(e[4])
      [] Tag(e) \in {"ListLit", "OptionalLit"} -> NnSeq(e[2]) /\ NnSeq(e[3])
      [] Tag(e) \in {"Record", "RecordLit", "Union"} -> NnKv(e[2])
      [] Tag(e) = "UnionLit" -> NonNegative(e[3]) /\ NnKv(e[4])
      [] Tag(e) = "Merge" -> NonNegative(e[2]) /\ NonNegative(e[3]) /\ NnSeq(e[4])
      [] Tag(e) = "Field" -> NonNegative(e[2])
      [] Tag(e) = "Note" -> NonNegative(e[3])
      [] OTHER -> TRUE

(* the arguments and bodies the reached expressions are paired with *)
Partners == {Var("x", 0), Var("y", 1), Lam("x", Natural, Var("x", 1)), NaturalLit(0)}

C28_NoNegativeIndex ==
    ~IsPanic(expr) =>
        /\ NonNegative(expr)
        /\ op \in {"init", "normalize"} => \A x \in Names, p \in Partners :
              /\ ~OccursFree(Var(x, 0), subst(Var(x, 0), shift(1, Var(x, 0), p), expr))
              /\ ~OccursFree(Var(x, 0), subst(Var(x, 0), shift(1, Var(x, 0), expr), p))
              /\ NonNegative(BetaSubst(x, p, expr))
              /\ NonNegative(BetaSubst(x, expr, p))
              /\ NonNegative(LetSubst(x, p, expr))

(* a beta redex whose argument is the bound variable's own name *)
C28_Witness ==
    /\ Normalized
    /\ Tag(prev) = "App"
    /\ Tag(prev[2]) = "Lam"
    /\ OccursFree(Var(prev[2][2], 0), prev[3])
    /\ OccursFree(Var(prev[2][2], 0), prev[2][4])
    /\ expr = prev[3]

(* C29: the internal-error panic of List/build is unreachable:             *)
(* list_to_vector is called only on a term for which check returned true,  *)
(* and check accepts exactly the terms list_to_vector consumes without     *)
(* panicking (nested App(App(Var "Cons", x), rest) ending in Var "Nil"),   *)
(* so for every g the List/build rule returns a ListLit or the stuck redex.*)
InternalError == Panic("internalError list_to_vector")

(* the term the List/build rule hands to check, for normalized t and k *)
Labeled(t, k) ==
    normalize(App(App(App(k, App(Builtin("List"), t)), Var("Cons", 0)), Var("Nil", 0)))

Consumes(e) == FirstPanic(list_to_vector(e)) = <<>>

C29_InternalErrorUnreachable ==
    /\ expr # InternalError
    /\ ~IsPanic(expr) => (check(expr) <=> Consumes(expr))
    /\ (Normalized /\ IsListBuild(prev)) =>
          LET t == normalize(prev[2][3])
              k == normalize(prev[3])
          IN (~IsPanic(t) /\ ~IsPanic(k)) =>
                 /\ check(Labeled(t, k)) <=> Consumes(Labeled(t, k))
                 /\ ~IsApp2(k, "ListFold") =>
                        \/ Tag(expr) = "ListLit" /\ check(Labeled(t, k))
                        \/ expr = Build(t, k) /\ ~check(Labeled(t, k))

(* a builder whose result starts with a Cons application and does not end  *)
(* in Nil: check refuses it and the redex is returned                      *)
C29_Witness ==
    /\ Normalized
    /\ IsListBuild(prev)
    /\ Tag(prev[3]) = "Lam"
    /\ check_HeadOnly(Labeled(prev[2][3], normalize(prev[3])))
    /\ ~Consumes(Labeled(prev[2][3], normalize(prev[3])))
    /\ expr = prev

(***************************************************************************)
(* The parser of dhall_core/src/parser.rs: the conversion of the parse     *)
(* tree that the generated pest parser returns into an expression.         *)
(*                                                                         *)
(* A pest Pair is <<rule, children, text>>: its rule, the sequence of its  *)
(* inner pairs and the text it captured (the text is kept for the pairs    *)
(* whose handler reads it).  A ParseResult is <<"Ok", v>> or               *)
(* <<"Err", <<"ParseError", pair, message>>>>, the error being located at  *)
(* the span of pair; IterMatchError::NoMatchFound is <<"NoMatchFound">>    *)
(* and IterMatchError::Other(e) is the error e itself.  The parser's       *)
(* Expr::App(first, rest) holds the vector of the arguments.  The value    *)
(* of a natural or integer literal is kept as its decimal digits without   *)
(* leading zeros (with a leading "-" when negative), usize::MAX lying      *)
(* beyond the integers of the model checker; the value of a double         *)
(* literal is <<"finite", digits, exponent>> or <<"inf">>.                 *)
(***************************************************************************)
Pair(rule, children, text) == <<rule, children, text>>

as_rule(pair) == pair[1]

into_inner(pair) == pair[2]

as_str(pair) == pair[3]

Ok(v) == <<"Ok", v>>

Err(e) == <<"Err", e>>

IsOk(r) == r[1] = "Ok"

NoMatchFound == <<"NoMatchFound">>

AppVec(first, rest) == <<"App", first, rest>>

(* lines 26-31: a ParseError with a custom message at the span of pair *)
custom_parse_error(pair, msg) == <<"ParseError", pair, msg>>

(* lines 201-221: the branches are tried in order; the first Ok ends the   *)
(* loop, an Err replaces last_error, and a panic ends everything           *)
RECURSIVE match_iter_branching(_, _)
match_iter_branching(branches, last_error) ==
    IF branches = <<>> THEN last_error
    ELSE IF IsOk(branches[1]) \/ IsPanic(branches[1]) THEN branches[1]
    ELSE match_iter_branching(Tail(branches), branches[1])

(* lines 265-273: NoMatchFound becomes "No match found" at the pair *)
match_pair(pair, branches) ==
    LET result == match_iter_branching(branches, NoMatchFound)
    IN  IF result[1] = "NoMatchFound"
        THEN Err(custom_parse_error(pair, "No match found"))
        ELSE result

(* lines 312-324, the arm `r => Err(...)` of match_rule *)
Unexpected(pair) == Err(custom_parse_error(pair, "Unexpected rule"))

(* Iterator::collect into a Result<Vec<_>, _>: the first result that is    *)
(* no Ok, the vector of the values when there is none                      *)
RECURSIVE collect(_)
collect(rs) ==
    IF rs = <<>> THEN Ok(<<>>)
    ELSE IF ~IsOk(rs[1]) THEN rs[1]
    ELSE LET t == collect(Tail(rs))
         IN  IF IsOk(t) THEN Ok(<<rs[1][2]>> \o t[2]) ELSE t

(* str::trim on a text without inner blanks *)
RECURSIVE trim_start(_)
trim_start(s) ==
    IF s # <<>> /\ s[1] = " " THEN trim_start(Tail(s)) ELSE s

RECURSIVE trim_end(_)
trim_end(s) ==
    IF s # <<>> /\ s[Len(s)] = " "
    THEN trim_end(SubSeq(s, 1, Len(s) - 1))
    ELSE s

trim(s) == trim_end(trim_start(s))

(***************************************************************************)
(* str::parse of the standard library for usize, isize and f64 on a       *)
(* 64-bit target                                                           *)
(***************************************************************************)
DigitChars == {Digit(d) : d \in 0..9}

DigitValue(c) == CHOOSE d \in 0..9 : Digit(d) = c

Digits(ns) == [i \in 1..Len(ns) |-> Digit(ns[i])]

AllDigits(s) == s # <<>> /\ \A i \in 1..Len(s) : s[i] \in DigitChars

RECURSIVE Canonical(_)
Canonical(ds) ==
    IF Len(ds) > 1 /\ ds[1] = "0" THEN Canonical(Tail(ds)) ELSE ds

RECURSIVE LexLeq(_, _)
LexLeq(a, b) ==
    \/ a = <<>>
    \/ DigitValue(a[1]) < DigitValue(b[1])
    \/ a[1] = b[1] /\ LexLeq(Tail(a), Tail(b))

(* a <= b for two naturals in canonical decimal digits *)
LeqDigits(a, b) ==
    Len(a) < Len(b) \/ (Len(a) = Len(b) /\ LexLeq(a, b))

(* usize::MAX = 18446744073709551615 *)
UsizeMax == Digits(<<1, 8, 4, 4, 6, 7, 4, 4, 0, 7, 3, 7, 0, 9, 5, 5, 1, 6, 1, 5>>)

(* isize::MAX = 9223372036854775807 and the magnitude of isize::MIN *)
IsizeMax == Digits(<<9, 2, 2, 3, 3, 7, 2, 0, 3, 6, 8, 5, 4, 7, 7, 5, 8, 0, 7>>)

IsizeMinMagnitude == Digits(<<9, 2, 2, 3, 3, 7, 2, 0, 3, 6, 8, 5, 4, 7, 7, 5, 8, 0, 8>>)

(* the first seventeen significant digits of f64::MAX = 1.7976931348623157e308 *)
F64MaxDigits == Digits(<<1, 7, 9, 7, 6, 9, 3, 1, 3, 4, 8, 6, 2, 3, 1, 5, 7>>)

(* <usize as FromStr>::from_str *)
usize_parse(s) ==
    LET ds == IF s # <<>> /\ s[1] = "+" THEN Tail(s) ELSE s
    IN  IF ~AllDigits(ds) THEN <<"Err", "invalid digit found in string">>
        ELSE IF LeqDigits(Canonical(ds), UsizeMax) THEN Ok(Canonical(ds))
        ELSE <<"Err", "number too large to fit in target type">>

(* <isize as FromStr>::from_str *)
isize_parse(s) ==
    LET neg == s # <<>> /\ s[1] = "-"
        ds  == IF s # <<>> /\ s[1] \in {"+", "-"} THEN Tail(s) ELSE s
    IN  IF ~AllDigits(ds) THEN <<"Err", "invalid digit found in string">>
        ELSE IF ~neg
        THEN IF LeqDigits(Canonical(ds), IsizeMax) THEN Ok(Canonical(ds))
             ELSE <<"Err", "number too large to fit in target type">>
        ELSE IF LeqDigits(Canonical(ds), IsizeMinMagnitude)
             THEN Ok(IF Canonical(ds) = <<"0">> THEN <<"0">>
                     ELSE <<"-">> \o Canonical(ds))
             ELSE <<"Err", "number too small to fit in target type">>

RECURSIVE ToNat(_)
ToNat(ds) ==
    IF ds = <<>> THEN 0
    ELSE 10 * ToNat(SubSeq(ds, 1, Len(ds) - 1)) + DigitValue(ds[Len(ds)])

PadRight(ds, n) == [i \in 1..n |-> IF i <= Len(ds) THEN ds[i] ELSE "0"]

(* <f64 as FromStr>::from_str on a text of the form digits "e" digits: a   *)
(* magnitude above f64::MAX is no error, the result is infinity            *)
f64_parse(s) ==
    LET E == {i \in 1..Len(s) : s[i] = "e"}
    IN  IF E = {} THEN <<"Err", "invalid float literal">>
        ELSE LET i  == CHOOSE j \in E : TRUE
                 m  == SubSeq(s, 1, i - 1)
                 ex == SubSeq(s, i + 1, Len(s))
             IN  IF ~AllDigits(m) \/ ~AllDigits(ex)
                 THEN <<"Err", "invalid float literal">>
                 ELSE LET c == Canonical(m)
                          magnitude == Len(c) - 1 + ToNat(ex)
                      IN  IF c = <<"0">> THEN Ok(<<"finite", c, 0>>)
                          ELSE IF \/ magnitude > 308
                                  \/ /\ magnitude = 308
                                     /\ ~LexLeq(PadRight(c, 17), F64MaxDigits)
                          THEN Ok(<<"inf">>)
                          ELSE Ok(<<"finite", c, ToNat(ex)>>)

(***************************************************************************)
(* The handlers of the rules                                               *)
(***************************************************************************)
(* lines 328, 332: named!(str), named!(label) *)
str(pair) == Ok(trim(as_str(pair)))

label(pair) == Ok(trim(as_str(pair)))

(* line 326: rule!(EOI) *)
EOI(pair) ==
    IF as_rule(pair) # "EOI" THEN Unexpected(pair)
    ELSE match_pair(pair,
            <<IF into_inner(pair) = <<>> THEN Ok(<<>>) ELSE NoMatchFound>>)

(* lines 351-368: the character of an escape; the arm `_` is unimplemented!() *)
double_quote_escaped(pair) ==
    IF as_rule(pair) # "double_quote_escaped" THEN Unexpected(pair)
    ELSE LET s == as_str(pair)
         IN  CASE s = <<"\"">> -> Ok(<<"\"">>)
               [] s = <<"$">>  -> Ok(<<"$">>)
               [] s = <<"\\">> -> Ok(<<"\\">>)
               [] s = <<"/">>  -> Ok(<<"/">>)
               [] s = <<"n">>  -> Ok(<<"\n">>)
               [] s = <<"r">>  -> Ok(<<"\r">>)
               [] s = <<"t">>  -> Ok(<<"\t">>)
               [] OTHER        -> Panic("not yet implemented")

(* lines 407-413 *)
double_literal_raw(pair) ==
    IF as_rule(pair) # "double_literal_raw" THEN Unexpected(pair)
    ELSE LET r == f64_parse(trim(as_str(pair)))
         IN  IF IsOk(r) THEN r ELSE Err(custom_parse_error(pair, r[2]))

(* lines 415-421 *)
natural_literal_raw(pair) ==
    IF as_rule(pair) # "natural_literal_raw" THEN Unexpected(pair)
    ELSE LET r == usize_parse(trim(as_str(pair)))
         IN  IF IsOk(r) THEN r ELSE Err(custom_parse_error(pair, r[2]))

(* lines 423-429 *)
integer_literal_raw(pair) ==
    IF as_rule(pair) # "integer_literal_raw" THEN Unexpected(pair)
    ELSE LET r == isize_parse(trim(as_str(pair)))
         IN  IF IsOk(r) THEN r ELSE Err(custom_parse_error(pair, r[2]))

(* line 405: rule!(plus_infinity_literal) *)
plus_infinity_literal(pair) ==
    IF as_rule(pair) # "plus_infinity_literal" THEN Unexpected(pair)
    ELSE match_pair(pair,
            <<IF into_inner(pair) = <<>> THEN Ok(<<>>) ELSE NoMatchFound>>)

(* lines 587-608 *)
can_be_shortcutted_Any(rule) == TRUE

can_be_shortcutted(rule) ==
    rule \in {"import_alt_expression", "or_expression", "plus_expression",
              "text_append_expression", "list_append_expression",
              "and_expression", "combine_expression", "prefer_expression",
              "combine_types_expression", "times_expression",
              "equal_expression", "not_equal_expression",
              "application_expression", "selector_expression_raw",
              "annotated_expression"}

(* lines 650-661: the operator of each binop! rule *)
binop_rules ==
    [import_alt_expression    |-> "ImportAlt",
     or_expression            |-> "BoolOr",
     plus_expression          |-> "NaturalPlus",
     text_append_expression   |-> "TextAppend",
     list_append_expression   |-> "ListAppend",
     and_expression           |-> "BoolAnd",
     combine_expression       |-> "Combine",
     prefer_expression        |-> "Prefer",
     combine_types_expression |-> "CombineTypes",
     times_expression         |-> "NaturalTimes",
     equal_expression         |-> "BoolEQ",
     not_equal_expression     |-> "BoolNE"]

(* lines 633-641: the pair the shortcut loop ends on; `unwrap` panics on a *)
(* pair without inner pairs                                                *)
RECURSIVE shortcut(_)
shortcut(pair) ==
    IF ~can_be_shortcutted(as_rule(pair)) THEN pair
    ELSE IF into_inner(pair) = <<>>
    THEN Panic("called Option::unwrap() on a None value")
    ELSE IF Len(into_inner(pair)) > 1 THEN pair
    ELSE shortcut(into_inner(pair)[1])

(* the fold of line 627 nesting to the right *)
RECURSIVE fold_BinOp_Right(_, _, _)
fold_BinOp_Right(o, first, rest) ==
    IF rest = <<>> THEN first
    ELSE BinOp(o, first, fold_BinOp_Right(o, rest[1], Tail(rest)))

(* line 627: rest.into_iter().fold(first, |acc, e| BinOp(op, acc, e)) *)
RECURSIVE fold_BinOp(_, _, _)
fold_BinOp(o, first, rest) ==
    IF rest = <<>> THEN first
    ELSE fold_BinOp(o, BinOp(o, first, rest[1]), Tail(rest))

(* line 683: rest.fold(first, |acc, e| Field(acc, e)) *)
RECURSIVE fold_Field(_, _)
fold_Field(first, rest) ==
    IF rest = <<>> THEN first
    ELSE fold_Field(Field(first, rest[1]), Tail(rest))

(* line 545: bindings.fold(final_expr, |acc, x| Let(x.0, x.1, x.2, acc)) *)
RECURSIVE fold_Let(_, _)
fold_Let(final_expr, bindings) ==
    IF bindings = <<>> THEN final_expr
    ELSE LET x == bindings[1]
         IN  fold_Let(Let(x[1], x[2], x[3], final_expr), Tail(bindings))

(* lines 698-723, for a name that Builtin::parse does not know *)
identifier_name(name, idx) ==
    CASE name = <<"T", "r", "u", "e">>      -> BoolLit(TRUE)
      [] name = <<"F", "a", "l", "s", "e">> -> BoolLit(FALSE)
      [] name = <<"T", "y", "p", "e">>      -> Const("Type")
      [] name = <<"K", "i", "n", "d">>      -> Const("Kind")
      [] OTHER                              -> Var(name, idx)

RECURSIVE expression(_)
RECURSIVE binop(_, _)
RECURSIVE annotated_expression(_)
RECURSIVE application_expression(_)
RECURSIVE selector_expression_raw(_)
RECURSIVE literal_expression_raw(_)
RECURSIVE identifier_raw(_)
RECURSIVE let_expression(_)
RECURSIVE let_binding(_)
RECURSIVE interpolation(_)
RECURSIVE double_quote_chunk(_)
RECURSIVE double_quote_literal(_)
RECURSIVE final_expression(_)

(* lines 610-648: one binop! rule with operator o *)
binop(pair, o) ==
    IF into_inner(pair) = <<>>
    THEN Panic("called Option::unwrap() on a None value")
    ELSE LET first == into_inner(pair)[1]
             others == Tail(into_inner(pair))
             rest == collect([i \in 1..Len(others) |-> expression(others[i])])
         IN  IF ~IsOk(rest) THEN rest
             ELSE IF rest[2] # <<>>
             THEN LET f == expression(first)
                  IN  IF IsOk(f) THEN Ok(fold_BinOp(o, f[2], rest[2])) ELSE f
             ELSE LET target == shortcut(first)
                  IN  IF IsPanic(target) THEN target ELSE expression(target)

(* lines 663-668 *)
annotated_expression(pair) ==
    LET c == into_inner(pair)
        r == collect([i \in 1..Len(c) |-> expression(c[i])])
    IN  match_pair(pair,
          <<IF Len(c) # 2 THEN NoMatchFound
            ELSE IF IsOk(r) THEN Ok(Annot(r[2][1], r[2][2])) ELSE r,
            IF Len(c) # 1 THEN NoMatchFound
            ELSE IF IsOk(r) THEN Ok(r[2][1]) ELSE r>>)

(* lines 670-679 *)
application_expression(pair) ==
    LET c == into_inner(pair)
        r == collect([i \in 1..Len(c) |-> expression(c[i])])
    IN  match_pair(pair,
          <<IF c = <<>> THEN NoMatchFound
            ELSE IF ~IsOk(r) THEN r
            ELSE IF Len(c) = 1 THEN Ok(r[2][1])
            ELSE Ok(AppVec(r[2][1], Tail(r[2])))>>)

(* lines 681-685 *)
selector_expression_raw(pair) ==
    LET c == into_inner(pair)
    IN  match_pair(pair,
          <<IF c = <<>> THEN NoMatchFound
            ELSE LET first == expression(c[1])
                     rest == collect([i \in 1..Len(c) - 1 |-> label(c[i + 1])])
                 IN  IF ~IsOk(first) THEN first
                     ELSE IF ~IsOk(rest) THEN rest
                     ELSE Ok(fold_Field(first[2], rest[2]))>>)

(* lines 381-383 *)
interpolation(pair) ==
    IF as_rule(pair) # "interpolation" THEN Unexpected(pair)
    ELSE match_pair(pair,
           <<IF Len(into_inner(pair)) # 1 THEN NoMatchFound
             ELSE expression(into_inner(pair)[1])>>)

(* lines 340-350 *)
double_quote_chunk(pair) ==
    IF as_rule(pair) # "double_quote_chunk" THEN Unexpected(pair)
    ELSE LET c == into_inner(pair)
             i == interpolation(c[1])
             s == double_quote_escaped(c[1])
         IN  match_pair(pair,
               <<IF Len(c) # 1 THEN NoMatchFound
                 ELSE IF IsOk(i) THEN Ok(<<"Expr", i[2]>>) ELSE i,
                 IF Len(c) # 1 THEN NoMatchFound
                 ELSE IF IsOk(s) THEN Ok(<<"Text", s[2]>>) ELSE s,
                 Ok(<<"Text", as_str(pair)>>)>>)

(* lines 334-338 *)
double_quote_literal(pair) ==
    IF as_rule(pair) # "double_quote_literal" THEN Unexpected(pair)
    ELSE LET c == into_inner(pair)
         IN  match_pair(pair,
               <<collect([i \in 1..Len(c) |-> double_quote_chunk(c[i])])>>)

(* lines 687-697; the branches of the literals that no input holds         *)
(* (minus_infinity_literal, NaN_raw, single_quote_literal) end in the      *)
(* same Err as the branches of the other rules                             *)
literal_expression_raw(pair) ==
    LET c == into_inner(pair)
        Branch(r, lit) ==
            IF Len(c) # 1 THEN NoMatchFound
            ELSE IF IsOk(r) THEN Ok(<<lit, r[2]>>) ELSE r
        e == IF Len(c) # 1 THEN NoMatchFound ELSE expression(c[1])
        inf == plus_infinity_literal(c[1])
    IN  match_pair(pair,
          <<Branch(double_literal_raw(c[1]), "DoubleLit"),
            IF Len(c) # 1 THEN NoMatchFound
            ELSE IF IsOk(inf) THEN Ok(DoubleLit(<<"inf">>)) ELSE inf,
            Branch(natural_literal_raw(c[1]), "NaturalLit"),
            Branch(integer_literal_raw(c[1]), "IntegerLit"),
            Branch(double_quote_literal(c[1]), "TextLit"),
            e>>)

(* lines 698-723 *)
identifier_raw(pair) ==
    LET c == into_inner(pair)
        idx == natural_literal_raw(c[2])
    IN  match_pair(pair,
          <<IF Len(c) # 2 THEN NoMatchFound
            ELSE IF IsOk(idx) THEN Ok(identifier_name(str(c[1])[2], idx[2]))
            ELSE idx,
            IF Len(c) # 1 THEN NoMatchFound
            ELSE Ok(identifier_name(str(c[1])[2], <<"0">>))>>)

(* lines 549-552 *)
let_binding(pair) ==
    IF as_rule(pair) # "let_binding" THEN Unexpected(pair)
    ELSE LET c == into_inner(pair)
             es == collect([i \in 1..Len(c) - 1 |-> expression(c[i + 1])])
         IN  match_pair(pair,
               <<IF Len(c) # 3 THEN NoMatchFound
                 ELSE IF IsOk(es)
                 THEN Ok(<<label(c[1])[2], <<es[2][1]>>, es[2][2]>>)
                 ELSE es,
                 IF Len(c) # 2 THEN NoMatchFound
                 ELSE IF IsOk(es) THEN Ok(<<label(c[1])[2], <<>>, es[2][1]>>)
                 ELSE es>>)

(* lines 543-547 *)
let_expression(pair) ==
    LET c == into_inner(pair)
    IN  match_pair(pair,
          <<IF c = <<>> THEN NoMatchFound
            ELSE LET bindings ==
                         collect([i \in 1..Len(c) - 1 |-> let_binding(c[i])])
                     final_expr == expression(c[Len(c)])
                 IN  IF ~IsOk(bindings) THEN bindings
                     ELSE IF ~IsOk(final_expr) THEN final_expr
                     ELSE Ok(fold_Let(final_expr[2], bindings[2]))>>)

(* lines 812-814 *)
final_expression(pair) ==
    LET c == into_inner(pair)
        e == expression(c[1])
        eoi == EOI(c[2])
    IN  match_pair(pair,
          <<IF Len(c) # 2 THEN NoMatchFound
            ELSE IF ~IsOk(e) THEN e
            ELSE IF ~IsOk(eoi) THEN eoi
            ELSE e>>)

(* lines 493-522: rule_group!(expression), on the rules the inputs hold *)
expression(pair) ==
    CASE as_rule(pair) \in DOMAIN binop_rules ->
             binop(pair, binop_rules[as_rule(pair)])
      [] as_rule(pair) = "annotated_expression" -> annotated_expression(pair)
      [] as_rule(pair) = "application_expression" ->
             application_expression(pair)
      [] as_rule(pair) = "selector_expression_raw" ->
             selector_expression_raw(pair)
      [] as_rule(pair) = "literal_expression_raw" ->
             literal_expression_raw(pair)
      [] as_rule(pair) = "identifier_raw" -> identifier_raw(pair)
      [] as_rule(pair) = "let_expression" -> let_expression(pair)
      [] as_rule(pair) = "final_expression" -> final_expression(pair)
      [] OTHER -> Unexpected(pair)

(* lines 816-822, on the pair of Rule::final_expression that               *)
(* DhallParser::parse returns                                              *)
parse_expr(pair) == expression(pair)

(***************************************************************************)
(* Parse trees                                                             *)
(***************************************************************************)
MaxChain == 3
MaxBindings == 3

Leaf(rule, text) == Pair(rule, <<>>, text)

Node(rule, children) == Pair(rule, children, <<>>)

(* build.rs and the grammar: the rules between an expression and a         *)
(* primitive expression, from the loosest to the tightest                  *)
Levels ==
    <<"annotated_expression", "import_alt_expression", "or_expression",
      "plus_expression", "text_append_expression", "list_append_expression",
      "and_expression", "combine_expression", "prefer_expression",
      "combine_types_expression", "times_expression", "equal_expression",
      "not_equal_expression", "application_expression",
      "selector_expression_raw">>

(* p below one single-child pair of each of the levels i..j *)
RECURSIVE Nest(_, _, _)
Nest(i, j, p) == IF i > j THEN p ELSE Node(Levels[i], <<Nest(i + 1, j, p)>>)

Identifier(name) == Node("identifier_raw", <<Leaf("simple_label", name)>>)

Literal(rule, text) == Node("literal_expression_raw", <<Leaf(rule, text)>>)

Primitives ==
    {Identifier(<<"x">>), Identifier(<<"y">>),
     Literal("natural_literal_raw", <<"1">>)}

(* the pair of level k over the operands ps *)
Chain(k, ps) ==
    Node(Levels[k], [i \in 1..Len(ps) |-> Nest(k + 1, Len(Levels), ps[i])])

Complete(e) == Node("final_expression", <<e, Leaf("EOI", <<>>)>>)

OperandTuples == UNION {[1..n -> Primitives] : n \in 1..MaxChain}

(* e1 op e2 op ... op en under each operator rule *)
ChainTrees ==
    {Complete(Nest(1, k - 1, Chain(k, ps))) :
        k \in 2..13, ps \in OperandTuples}

(* a chain of a tighter operator as an operand of a looser one *)
MixedTrees ==
    {Complete(Nest(1, k - 1,
        Node(Levels[k],
             IF left
             THEN <<Nest(k + 1, m - 1, Chain(m, qs)),
                    Nest(k + 1, Len(Levels), p)>>
             ELSE <<Nest(k + 1, Len(Levels), p),
                    Nest(k + 1, m - 1, Chain(m, qs))>>))) :
        k \in {3, 4}, m \in {11, 12}, left \in BOOLEAN,
        p \in Primitives, qs \in [1..2 -> Primitives]}

(* f a, f a b; x.a, x.a.b; e : T; (e : T) as an operand *)
ApplicationTrees ==
    {Complete(Nest(1, 13,
        Node("application_expression",
             [i \in 1..Len(ps) |-> Nest(15, 15, ps[i])]))) :
        ps \in UNION {[1..n -> Primitives] : n \in 2..3}}

SelectorTrees ==
    {Complete(Nest(1, 14,
        Node("selector_expression_raw", <<p>> \o ls))) :
        p \in Primitives,
        ls \in {<<Leaf("label", <<"a">>)>>,
                <<Leaf("label", <<"a">>), Leaf("label", <<"b">>)>>}}

Annotated(e, t) == Node("annotated_expression", <<e, t>>)

AnnotatedTrees ==
    {Complete(Annotated(Nest(2, 15, p), Nest(1, 15, t))) :
        p \in Primitives, t \in Primitives}
    \cup {Complete(Nest(1, 15,
              Annotated(Nest(2, 15, p), Nest(1, 15, t)))) :
        p \in Primitives, t \in Primitives}

(* let x1 = r1 let x2 = r2 ... in b *)
LetBindings ==
    {Node("let_binding",
          <<Leaf("label", <<"x">>), Nest(1, 15, Literal("natural_literal_raw", <<"1">>))>>),
     Node("let_binding",
          <<Leaf("label", <<"y">>), Nest(1, 15, Identifier(<<"x">>))>>),
     Node("let_binding",
          <<Leaf("label", <<"x">>), Nest(1, 15, Identifier(<<"T">>)),
            Nest(1, 15, Identifier(<<"y">>))>>)}

LetTrees ==
    {Complete(Node("let_expression", bs \o <<Nest(1, 15, b)>>)) :
        bs \in UNION {[1..n -> LetBindings] : n \in 1..MaxBindings},
        b \in {Identifier(<<"x">>), Identifier(<<"y">>)}}

(* numeric literals around the limits of usize, isize and f64 *)
NaturalTexts ==
    {<<"0">>, <<"7">>, <<"0", "0", "7">>, UsizeMax,
     SubSeq(UsizeMax, 1, 19) \o <<"6">>,
     [i \in 1..20 |-> "9"], [i \in 1..21 |-> "1"]}

IntegerTexts ==
    {<<"+", "1">>, <<"-", "1">>, <<"-", "0">>,
     <<"+">> \o IsizeMax, <<"+">> \o IsizeMinMagnitude,
     <<"-">> \o IsizeMinMagnitude,
     <<"-">> \o SubSeq(IsizeMinMagnitude, 1, 18) \o <<"9">>,
     <<"+">> \o [i \in 1..20 |-> "9"]}

DoubleTexts ==
    {<<"1", "e", "1", "0">>, <<"1", "e", "3", "0", "8">>,
     <<"2", "e", "3", "0", "8">>, <<"1", "e", "3", "0", "9">>,
     <<"1", "e", "4", "0", "0">>, <<"1", "7", "e", "3", "0", "7">>,
     <<"0", "e", "4", "0", "0">>}

NumericLiterals ==
    {Literal("natural_literal_raw", t) : t \in NaturalTexts}
    \cup {Literal("integer_literal_raw", t) : t \in IntegerTexts}
    \cup {Literal("double_literal_raw", t) : t \in DoubleTexts}

NumberTrees ==
    {Complete(Nest(1, 15, n)) : n \in NumericLiterals}
    \cup {Complete(Annotated(Nest(2, 15, n), Nest(1, 15, Identifier(<<"T">>)))) :
            n \in NumericLiterals}
    \cup {Complete(Nest(1, 3, Chain(4, <<Identifier(<<"x">>), n>>))) :
            n \in NumericLiterals}
    \cup {Complete(Node("let_expression",
              <<Node("let_binding", <<Leaf("label", <<"x">>), Nest(1, 15, n)>>),
                Nest(1, 15, Identifier(<<"x">>))>>)) :
            n \in NumericLiterals}

(* double-quoted text literals: plain chunks, escapes, an interpolation *)
Escapes ==
    {<<"\"">>, <<"$">>, <<"\\">>, <<"/">>, <<"b">>, <<"f">>, <<"n">>,
     <<"r">>, <<"t">>, <<"u", "0", "0", "4", "1">>}

Chunks ==
    {Leaf("double_quote_chunk", <<"a">>),
     Node("double_quote_chunk",
          <<Node("interpolation", <<Nest(1, 15, Identifier(<<"x">>))>>)>>)}
    \cup {Node("double_quote_chunk", <<Leaf("double_quote_escaped", e)>>) :
            e \in Escapes}

TextTrees ==
    {Complete(Nest(1, 15,
        Node("literal_expression_raw",
             <<Node("double_quote_literal", cs)>>))) :
        cs \in UNION {[1..n -> Chunks] : n \in 0..2}}

ParseTrees ==
    ChainTrees \cup MixedTrees \cup ApplicationTrees \cup SelectorTrees
    \cup AnnotatedTrees \cup LetTrees \cup NumberTrees \cup TextTrees

(***************************************************************************)
(* The parser as a state machine: expr is the parse tree and, after        *)
(* parse_expr, its result; prev the parse tree parse_expr was applied to.  *)
(***************************************************************************)
ParserInit ==
    /\ expr \in ParseTrees
    /\ prev = expr
    /\ op = "init"
    /\ arg = <<>>
    /\ steps = 0

(* parse_expr(s), s being the text of the parse tree *)
ParseExpr ==
    /\ op = "init"
    /\ expr' = parse_expr(expr)
    /\ prev' = expr
    /\ op' = "parse_expr"
    /\ arg' = <<>>
    /\ steps' = steps + 1

ParserNext == ParseExpr

ParserSpec == ParserInit /\ [][ParserNext]_vars

ParseReturned == op = "parse_expr"

RECURSIVE SubPairs(_)
SubPairs(p) ==
    {p} \cup UNION {SubPairs(into_inner(p)[i]) : i \in 1..Len(into_inner(p))}

(* the pair below the single-child pairs at the top of an expression *)
RECURSIVE Descend(_)
Descend(p) ==
    IF can_be_shortcutted(as_rule(p)) /\ Len(into_inner(p)) = 1
    THEN Descend(into_inner(p)[1])
    ELSE p

TopPair == Descend(into_inner(prev)[1])

(* C22: the parser flattens a chain e1 op e2 op ... op en (n >= 2) of one  *)
(* operator rule left-associatively, the operands in source order:         *)
(* BinOp(op, BinOp(op, ... BinOp(op, e1, e2) ..., e(n-1)), en).            *)
RECURSIVE LeftNested(_, _)
LeftNested(o, es) ==
    IF Len(es) = 1 THEN es[1]
    ELSE BinOp(o, LeftNested(o, SubSeq(es, 1, Len(es) - 1)), es[Len(es)])

IsOperatorChain(q) ==
    as_rule(q) \in DOMAIN binop_rules /\ Len(into_inner(q)) >= 2

Operands(q) == [i \in 1..Len(into_inner(q)) |-> expression(into_inner(q)[i])]

ChainResult(q) ==
    Ok(LeftNested(binop_rules[as_rule(q)],
                  [i \in 1..Len(into_inner(q)) |-> Operands(q)[i][2]]))

C22_LeftAssociative ==
    ParseReturned =>
        /\ \A q \in SubPairs(prev) :
              IsOperatorChain(q) /\ (\A i \in 1..Len(into_inner(q)) : IsOk(Operands(q)[i]))
                  => expression(q) = ChainResult(q)
        /\ IsOperatorChain(TopPair) /\ IsOk(expr) => expr = ChainResult(TopPair)

C22_Witness ==
    /\ ParseReturned
    /\ IsOperatorChain(TopPair)
    /\ expr = Ok(BinOp("NaturalPlus",
                       BinOp("NaturalPlus", Var(<<"x">>, <<"0">>), Var(<<"y">>, <<"0">>)),
                       NaturalLit(<<"1">>)))

(* C23: a natural, integer or double literal whose text overflows the      *)
(* literal's machine type makes parse_expr return Err(ParseError) located  *)
(* at that literal, never a panic and never a wrapped or truncated value.  *)
Overflows(lit) ==
    LET t == as_str(lit)
        ds == IF t[1] \in {"+", "-"} THEN Tail(t) ELSE t
        e == CHOOSE i \in 1..Len(t) : t[i] = "e"
        m == Canonical(SubSeq(t, 1, e - 1))
        magnitude == Len(m) - 1 + ToNat(SubSeq(t, e + 1, Len(t)))
    IN  CASE as_rule(lit) = "natural_literal_raw" ->
                 ~LeqDigits(Canonical(ds), UsizeMax)
          [] as_rule(lit) = "integer_literal_raw" ->
                 IF t[1] = "-"
                 THEN ~LeqDigits(Canonical(ds), IsizeMinMagnitude)
                 ELSE ~LeqDigits(Canonical(ds), IsizeMax)
          [] as_rule(lit) = "double_literal_raw" ->
                 /\ m # <<"0">>
                 /\ \/ magnitude > 308
                    \/ /\ magnitude = 308
                       /\ ~LexLeq(PadRight(m, 17), F64MaxDigits)
          [] OTHER -> FALSE

OverflowingLiterals(tree) == {q \in SubPairs(tree) : Overflows(q)}

C23_OverflowIsParseError ==
    ParseReturned =>
        \A lit \in OverflowingLiterals(prev) :
            /\ expr[1] = "Err"
            /\ expr[2][2] = lit

(* C24: every escape of a double-quoted text literal (\", \$, \\, \/, \b,  *)
(* \f, \n, \r, \t, \uXXXX) is translated to the character it denotes,      *)
(* and parse_expr returns a Result, never panicking on an escape.          *)
Denotes(e) ==
    CASE e = <<"\"">> -> <<"\"">>
      [] e = <<"$">>  -> <<"$">>
      [] e = <<"\\">> -> <<"\\">>
      [] e = <<"/">>  -> <<"/">>
      [] e = <<"b">>  -> <<"U+0008">>
      [] e = <<"f">>  -> <<"\f">>
      [] e = <<"n">>  -> <<"\n">>
      [] e = <<"r">>  -> <<"\r">>
      [] e = <<"t">>  -> <<"\t">>
      [] e = <<"u", "0", "0", "4", "1">> -> <<"A">>

EscapePairs(tree) ==
    {q \in SubPairs(tree) : as_rule(q) = "double_quote_escaped"}

C24_AllEscapesHandled ==
    ParseReturned =>
        /\ ~IsPanic(expr)
        /\ \A q \in EscapePairs(prev) :
              double_quote_escaped(q) = Ok(Denotes(as_str(q)))

(* C26: for let x1 = r1 let x2 = r2 ... let xn = rn in b the parser builds *)
(* Let(x1, _, r1, Let(x2, _, r2, ... Let(xn, _, rn, b))): the first        *)
(* binding is the outermost node.                                          *)
IsLetTree(tree) == as_rule(into_inner(tree)[1]) = "let_expression"

LetChildren == into_inner(into_inner(prev)[1])

RECURSIVE FirstOutermost(_, _)
FirstOutermost(bindings, b) ==
    IF bindings = <<>> THEN b
    ELSE LET x == let_binding(bindings[1])[2]
         IN  Let(x[1], x[2], x[3], FirstOutermost(Tail(bindings), b))

C26_FirstBindingOutermost ==
    ParseReturned /\ IsLetTree(prev) /\ IsOk(expr) =>
        expr = Ok(FirstOutermost(
                    SubSeq(LetChildren, 1, Len(LetChildren) - 1),
                    expression(LetChildren[Len(LetChildren)])[2]))

(* C30: a single-child operator rule handled by the shortcut yields the    *)
(* same result as the plain fold rest.fold(first, BinOp) that recurses     *)
(* through every intermediate rule, and the shortcut stops at the first    *)
(* rule that has more than one child or is not short-cuttable.  The plain  *)
(* fold being compared at every pair of the tree, the equality holds of    *)
(* the whole parse by induction on the tree.                               *)
PlainFold(pair, o) ==
    LET c == into_inner(pair)
        r == collect([i \in 1..Len(c) |-> expression(c[i])])
    IN  match_pair(pair,
          <<IF c = <<>> THEN NoMatchFound
            ELSE IF IsOk(r) THEN Ok(fold_BinOp(o, r[2][1], Tail(r[2])))
            ELSE r>>)

SingleChildOperators(tree) ==
    {q \in SubPairs(tree) :
        as_rule(q) \in DOMAIN binop_rules /\ Len(into_inner(q)) = 1}

(* the pairs the loop passes from pair down to, and without, target *)
RECURSIVE Skipped(_, _)
Skipped(pair, target) ==
    IF pair = target THEN {}
    ELSE {pair} \cup Skipped(into_inner(pair)[1], target)

C30_ShortcutIsPlainFold ==
    ParseReturned =>
        \A q \in SingleChildOperators(prev) :
            LET first == into_inner(q)[1]
                target == shortcut(first)
            IN  /\ binop(q, binop_rules[as_rule(q)])
                      = PlainFold(q, binop_rules[as_rule(q)])
                /\ ~IsPanic(target)
                /\ \/ ~can_be_shortcutted(as_rule(target))
                   \/ Len(into_inner(target)) > 1
                /\ \A s \in Skipped(first, target) :
                      can_be_shortcutted(as_rule(s)) /\ Len(into_inner(s)) = 1

(* the shortcut passes thirteen rules and stops at an application of two   *)
(* items                                                                   *)
C30_Witness ==
    /\ ParseReturned
    /\ as_rule(into_inner(into_inner(prev)[1])[1]) = "import_alt_expression"
    /\ as_rule(TopPair) = "application_expression"
    /\ Len(into_inner(TopPair)) = 2
    /\ IsOk(expr) /\ Tag(expr[2]) = "App"

(* the shortcut stops at a rule that is not short-cuttable *)
C30_WitnessPrimitive ==
    /\ ParseReturned
    /\ SingleChildOperators(prev) # {}
    /\ as_rule(TopPair) = "identifier_raw"
    /\ expr = Ok(Var(<<"x">>, <<"0">>))

(***************************************************************************)
(* The Deserializer builder of serde_dhall/src/options/de.rs.  A           *)
(* Deserializer is the record of its four fields; a HashMap<Label, Expr>   *)
(* is the set of its <<key, value>> entries, no two with the same key.     *)
(***************************************************************************)
MaxCalls == 3

NoAnnot == <<"NoAnnot">>

ManualAnnot(ty) == <<"ManualAnnot", ty>>

StaticAnnot == <<"StaticAnnot">>

SimpleTypes == {"Natural", "Bool"}

TypeNames == {"A", "B"}

(* the documentation example of lines 203-212 and the same text without    *)
(* its import, as texts and as the contents of two files                   *)
DhallTexts == {"12 + ./other_file.dhall : Natural", "12 + 1 : Natural"}

Paths == {"importing.dhall", "plain.dhall"}

TextOf(source) ==
    IF source[1] = "Str" THEN source[2]
    ELSE IF source[2] = "importing.dhall"
    THEN "12 + ./other_file.dhall : Natural"
    ELSE "12 + 1 : Natural"

ImportsOf(text) ==
    IF text = "12 + ./other_file.dhall : Natural"
    THEN {"./other_file.dhall"}
    ELSE {}

(* SimpleType::to_expr, on the builtin types *)
to_expr(ty) == Builtin(ty)

(* HashMap::insert *)
insert(m, kv) == {e \in m : e[1] # kv[1]} \cup {kv}

(* HashMap::iter: the entries in some order, which no caller depends on    *)
(* as the keys are distinct                                                *)
RECURSIVE iter(_)
iter(m) ==
    IF m = {} THEN <<>>
    ELSE LET e == CHOOSE x \in m : TRUE
         IN  <<e>> \o iter(m \ {e})

(* Iterator::collect into a HashMap: the entries inserted in order, a      *)
(* later entry replacing an earlier one of the same key                    *)
RECURSIVE collect_HashMap(_)
collect_HashMap(entries) ==
    IF entries = <<>> THEN {}
    ELSE insert(collect_HashMap(SubSeq(entries, 1, Len(entries) - 1)),
                entries[Len(entries)])

(* lines 67-77 *)
default_with_source(source) ==
    [source        |-> source,
     annot         |-> NoAnnot,
     allow_imports |-> TRUE,
     substitutions |-> {}]

(* lines 78-86 *)
from_str(s) == default_with_source(<<"Str", s>>)

from_file(path) == default_with_source(<<"File", path>>)

from_binary_file(path) == default_with_source(<<"BinaryFile", path>>)

(* lines 129-139 *)
type_annotation(d, ty) ==
    [annot         |-> ManualAnnot(ty),
     source        |-> d.source,
     allow_imports |-> d.allow_imports,
     substitutions |-> d.substitutions]

(* lines 183-190 *)
static_type_annotation(d) ==
    [annot         |-> StaticAnnot,
     source        |-> d.source,
     allow_imports |-> d.allow_imports,
     substitutions |-> d.substitutions]

(* imports leaving the setting as it was *)
imports_Keep(d, b) == d

(* lines 215-220 *)
imports(d, b) == [d EXCEPT !.allow_imports = b]

(* lines 268-286: the new entries chained before the old ones *)
inject_types(d, tys) ==
    [d EXCEPT !.substitutions =
        collect_HashMap(
            [i \in 1..Len(tys) |-> <<tys[i][1], to_expr(tys[i][2])>>]
            \o iter(d.substitutions))]

(* lines 288-301: the old entries chained before the new one *)
inject_single_type(d, name, ty) ==
    [d EXCEPT !.substitutions =
        collect_HashMap(iter(d.substitutions) \o <<<<name, to_expr(ty)>>>>)]

(* Parsed::parse_str, parse_file, parse_binary_file: the parsed            *)
(* expression, kept by its imports                                         *)
parse_source(source) ==
    [imports |-> ImportsOf(TextOf(source)), resolved |-> {}]

(* Parsed::resolve: every import is fetched, which succeeds when found *)
resolve(parsed, found) ==
    IF parsed.imports = {} \/ found
    THEN Ok([parsed EXCEPT !.resolved = parsed.imports])
    ELSE <<"Err", "import not found">>

(* Parsed::skip_resolve: no import is fetched, an expression that holds    *)
(* one is an error                                                         *)
skip_resolve(parsed) ==
    IF parsed.imports = {} THEN Ok(parsed)
    ELSE <<"Err", "import resolution disabled">>

(* lines 303-366: found and welltyped are the outcomes of the import       *)
(* resolution and of the type check                                        *)
parse_value(d, found, welltyped) ==
    LET parsed == parse_source(d.source)
        resolved == IF d.allow_imports
                    THEN resolve(parsed, found)
                    ELSE skip_resolve(parsed)
    IN  [path     |-> IF d.allow_imports THEN "resolve" ELSE "skip_resolve",
         resolved |-> IF IsOk(resolved) THEN resolved[2].resolved ELSE {},
         result   |-> IF ~IsOk(resolved) THEN resolved
                      ELSE IF ~welltyped THEN <<"Err", "type error">>
                      ELSE Ok(<<"Value", d.annot>>)]

(***************************************************************************)
(* The builder as a state machine: expr is the Deserializer, prev the      *)
(* Deserializer before the last call, op the last call and arg the calls   *)
(* made so far with their arguments, a call of parse with what it did.     *)
(***************************************************************************)
DeserializerInit ==
    /\ \/ \E text \in DhallTexts : expr = from_str(text) /\ op = "from_str"
       \/ \E path \in Paths : expr = from_file(path) /\ op = "from_file"
       \/ \E path \in Paths :
             expr = from_binary_file(path) /\ op = "from_binary_file"
    /\ prev = expr
    /\ arg = <<>>
    /\ steps = 0

(* imports(b) *)
Imports ==
    /\ steps < MaxCalls
    /\ \E b \in BOOLEAN :
          /\ expr' = imports(expr, b)
          /\ arg' = Append(arg, <<"imports", b>>)
    /\ prev' = expr
    /\ op' = "imports"
    /\ steps' = steps + 1

(* type_annotation(&ty), a method of Deserializer<NoAnnot> *)
TypeAnnotation ==
    /\ steps < MaxCalls
    /\ expr.annot = NoAnnot
    /\ \E ty \in SimpleTypes :
          /\ expr' = type_annotation(expr, ty)
          /\ arg' = Append(arg, <<"type_annotation", ty>>)
    /\ prev' = expr
    /\ op' = "type_annotation"
    /\ steps' = steps + 1

(* static_type_annotation(), a method of Deserializer<NoAnnot> *)
StaticTypeAnnotation ==
    /\ steps < MaxCalls
    /\ expr.annot = NoAnnot
    /\ expr' = static_type_annotation(expr)
    /\ arg' = Append(arg, <<"static_type_annotation">>)
    /\ prev' = expr
    /\ op' = "static_type_annotation"
    /\ steps' = steps + 1

InjectedTypes ==
    {<<>>, <<<<"A", "Natural">>>>, <<<<"A", "Bool">>>>,
     <<<<"A", "Natural">>, <<"B", "Bool">>>>}

(* inject_types(tys) *)
InjectTypes ==
    /\ steps < MaxCalls
    /\ \E tys \in InjectedTypes :
          /\ expr' = inject_types(expr, tys)
          /\ arg' = Append(arg, <<"inject_types", tys>>)
    /\ prev' = expr
    /\ op' = "inject_types"
    /\ steps' = steps + 1

(* inject_single_type(name, ty) *)
InjectSingleType ==
    /\ steps < MaxCalls
    /\ \E name \in TypeNames, ty \in SimpleTypes :
          /\ expr' = inject_single_type(expr, name, ty)
          /\ arg' = Append(arg, <<"inject_single_type", name, ty>>)
    /\ prev' = expr
    /\ op' = "inject_single_type"
    /\ steps' = steps + 1

(* parse(), which borrows the Deserializer *)
Parse ==
    /\ steps < MaxCalls
    /\ \E found \in BOOLEAN, welltyped \in BOOLEAN :
          arg' = Append(arg, <<"parse", parse_value(expr, found, welltyped)>>)
    /\ expr' = expr
    /\ prev' = expr
    /\ op' = "parse"
    /\ steps' = steps + 1

DeserializerNext ==
    \/ Imports
    \/ TypeAnnotation
    \/ StaticTypeAnnotation
    \/ InjectTypes
    \/ InjectSingleType
    \/ Parse

DeserializerSpec == DeserializerInit /\ [][DeserializerNext]_vars

(* C25: a Deserializer created by from_str, from_file or from_binary_file  *)
(* has imports enabled; after any sequence of builder calls the import     *)
(* setting is the argument of the last imports(b) call (enabled if there   *)
(* is none); when it is disabled, parse takes the skip_resolve path,       *)
(* resolves no import and returns Err for an expression that holds one.    *)
RECURSIVE LastImports(_)
LastImports(calls) ==
    IF calls = <<>> THEN TRUE
    ELSE IF calls[Len(calls)][1] = "imports" THEN calls[Len(calls)][2]
    ELSE LastImports(SubSeq(calls, 1, Len(calls) - 1))

Created == op \in {"from_str", "from_file", "from_binary_file"}

C25_ImportSwitch ==
    /\ Created => expr.allow_imports
    /\ expr.allow_imports = LastImports(arg)
    /\ op = "parse" /\ ~expr.allow_imports =>
          LET did == arg[Len(arg)][2]
          IN  /\ did.path = "skip_resolve"
              /\ did.resolved = {}
              /\ ImportsOf(TextOf(expr.source)) # {} => did.result[1] = "Err"

(* imports(true), then imports(false), then parse of a text with an import *)
C25_Witness ==
    /\ op = "parse"
    /\ Len(arg) = 3
    /\ arg[1] = <<"imports", TRUE>>
    /\ arg[2] = <<"imports", FALSE>>
    /\ ~expr.allow_imports
    /\ ImportsOf(TextOf(expr.source)) # {}
    /\ arg[3][2].result[1] = "Err"

(* an annotation set after imports(false) keeps the setting *)
C25_WitnessAnnotated ==
    /\ op = "parse"
    /\ arg[1] = <<"imports", FALSE>>
    /\ arg[2][1] = "type_annotation"
    /\ arg[3][2].path = "skip_resolve"
    /\ ImportsOf(TextOf(expr.source)) = {}
    /\ arg[3][2].result[1] = "Ok"

(* C27: inject_single_type(name, ty) yields the same substitution map as   *)
(* inject_types([(name, ty)]), also when name is already in the map, and   *)
(* leaves the source, the annotation, the import setting and the other     *)
(* entries of the map unchanged.                                           *)
C27_InjectConsistent ==
    op = "inject_single_type" =>
        LET name == arg[Len(arg)][2]
            ty == arg[Len(arg)][3]
        IN  /\ expr.substitutions
                  = inject_types(prev, <<<<name, ty>>>>).substitutions
            /\ expr.source = prev.source
            /\ expr.annot = prev.annot
            /\ expr.allow_imports = prev.allow_imports
            /\ {e \in expr.substitutions : e[1] # name}
                  = {e \in prev.substitutions : e[1] # name}

====
